---- MODULE Spec2Model ----
(***************************************************************************)
(* World-generation pipeline of nihilis: biome classification, climate     *)
(* synthesis, terrain redistribution and thermal erosion, settlement       *)
(* placement and world assembly.                                           *)
(*                                                                         *)
(* Real-valued quantities are fixed-point integers in thousandths          *)
(* (0.35 is 350).  Where binary64 rounding decides a comparison the value  *)
(* is a pair <<thousandths, ulp>>: the second component is the sign of the *)
(* difference between the double the code holds and the double of the      *)
(* decimal literal.                                                        *)
(***************************************************************************)
EXTENDS Integers, Sequences, FiniteSets, TLC

VARIABLES
    \* ---- BiomeGenerator.assign_biomes --------------------------------
    b_settings,     \* BiomeSettings of the generator
    b_heightmap,    \* heightmap argument      (cell -> number)
    b_temperature,  \* temperature argument    (cell -> number)
    b_precipitation,\* precipitation argument  (cell -> number)
    biome_map,      \* the int32 grid assign_biomes fills, 0 before
    b_pc,           \* "ready" before the call, "assigned" after it returns
    \* ---- TerrainGenerator ---------------------------------------------
    t_input,        \* the grid the caller passed in (never written)
    heightmap,      \* the grid the current stage works on / returns
    t_stage,        \* "noise", "redistributed" or "thermal"
    t_iter,         \* completed passes of thermal_erosion's loop
    min_slope,      \* settings.erosion.min_slope
    \* ---- BiomeGenerator climate maps ----------------------------------
    c_ocean_level,  \* settings.ocean_level
    c_heightmap,    \* heightmap argument of generate_precipitation_map
    c_normal,       \* the draws rng.normal(0, 1, (height, width)) of the seed
    temperature,    \* result of generate_temperature_map, <<>> before
    precipitation,  \* result of generate_precipitation_map, <<>> before
    \* ---- SettlementGenerator.generate_settlements ---------------------
    s_seed,         \* the seed the caller's generator was built from
    rng,            \* self.rng.bit_generator.state
    name_models,    \* NameGenerator.markov_models as load_models finds them
    s_heightmap,    \* heightmap argument
    settlement_counts, \* requested count of each SettlementType
    rng_state,      \* the snapshot taken on entry
    settlements,    \* the list being built / returned
    habitability,   \* result of _calculate_habitability
    type_habitability, \* the current type's working copy
    s_type,         \* the type the outer loop is at (9: past the last)
    s_placed,       \* settlements of the current type placed so far
    attempts,       \* attempts since the last placement of this type
    used_percentile, \* the percentile the latest attempt took its threshold at
    s_pc,           \* "start", "placing" or "returned"
    \* ---- WorldGenerator ------------------------------------------------
    w_seed,         \* self.settings.seed
    w_erosion,      \* whether terrain_generator.settings.erosion is set
    w_biomes,       \* biome_generator.settings
    terrain_seed,   \* terrain_generator.settings.seed
    terrain_rng,    \* terrain_generator.rng
    biome_rng,      \* biome_generator.rng
    world,          \* the World that generate() is building
    worlds,         \* the worlds returned so far, in order
    w_others,       \* other operations since the last call of generate()
    w_pc,           \* "ready", or "settling" inside generate()
    \* ---- TerrainSettings / ErosionSettings ------------------------------
    x_call,         \* the constructor or from_config call and its argument
    x_result,       \* what the call returned or raised, <<>> before
    x_pc,           \* "ready" before the call, "done" after it
    \* ---- TerrainTemplateManager ------------------------------------------
    m_files,        \* the templates directory: file name -> content
    templates,      \* the saving manager's templates: name -> template
    fresh_templates,\* the templates of the manager constructed last
    m_load,         \* that construction: the order its glob gave the files
                    \* in, and whether it raised
    m_last,         \* the last save_template call and what it returned
    m_pc,           \* "saved" after save_template, "loaded" after a new
                    \* manager, else "ready"
    m_ops,          \* operations so far
    m_saves_only,   \* only successful save_template calls have touched the directory
    \* ---- Settlement.generate_name -----------------------------------------
    n_type,         \* the settlement's type
    n_models,       \* the name generator's markov_models
    n_rng,          \* the name generator's stream
    n_result,       \* what generate_name did: raised, and the name it left
    n_pc,           \* "unnamed" before the call, "named" after it
    \* ---- TerrainGenerator: generate_heightmap and apply_erosion -----------
    g_seed,         \* settings.seed
    g_shape,        \* <<settings.height, settings.width>>: rows, columns
    g_rng,          \* self.rng
    g_maps,         \* what generate_heightmap returned so far, and the
                    \* stream each call found
    g_input,        \* the heightmap handed to apply_erosion
    g_grid,         \* the grid apply_erosion is working on
    g_height,       \* the local `height` of hydraulic_erosion
    g_drops,        \* the droplets of hydraulic_erosion so far: where each
                    \* started, its finished steps, where it was when it ended
    g_done,         \* droplets, then thermal passes, finished
    g_pc,           \* "ready", "hydraulic", "thermal", "returned", "raised"
    \* ---- MessageManager ---------------------------------------------------
    messages,       \* self.messages: <<line, fg>> entries, oldest first
    max_messages,   \* self.max_messages
    console_width,  \* self.console_width
    appended,       \* every entry ever appended to messages, in order
    adds,           \* add_message calls made
    \* ---- InputHandler and GameStateManager --------------------------------
    current_state,  \* state_manager.current_state: enum class and member
    pressed_keys,   \* self.pressed_keys
    MOVEMENT_KEYS,  \* self.MOVEMENT_KEYS: the params dict of each key's action
    returned        \* the latest ev_keydown: its event, the state it found,
                    \* the action it returned and the state it left

bvars == <<b_settings, b_heightmap, b_temperature, b_precipitation, biome_map, b_pc>>
tvars == <<t_input, heightmap, t_stage, t_iter, min_slope>>

cvars == <<c_ocean_level, c_heightmap, c_normal, temperature, precipitation>>

svars == <<s_seed, rng, name_models, s_heightmap, settlement_counts, rng_state,
          settlements, habitability, type_habitability, s_type, s_placed, attempts,
          used_percentile, s_pc>>

wvars == <<w_seed, w_erosion, w_biomes, terrain_seed, terrain_rng, biome_rng, world, worlds,
          w_others, w_pc>>

xvars == <<x_call, x_result, x_pc>>

mvars == <<m_files, templates, fresh_templates, m_load, m_last, m_pc, m_ops,
          m_saves_only>>

nvars == <<n_type, n_models, n_rng, n_result, n_pc>>

gvars == <<g_seed, g_shape, g_rng, g_maps, g_input, g_grid, g_height, g_drops, g_done, g_pc>>

lvars == <<messages, max_messages, console_width, appended, adds>>

ivars == <<current_state, pressed_keys, MOVEMENT_KEYS, returned>>

vars == <<bvars, tvars, cvars, svars, wvars, xvars, mvars, nvars, gvars, lvars, ivars>>

NotBiome == <<tvars, cvars, svars, wvars, xvars, mvars, nvars, gvars, lvars, ivars>>
NotTerrain == <<bvars, cvars, svars, wvars, xvars, mvars, nvars, gvars, lvars, ivars>>
NotClimate == <<bvars, tvars, svars, wvars, xvars, mvars, nvars, gvars, lvars, ivars>>
NotPlacer == <<bvars, tvars, cvars, wvars, xvars, mvars, nvars, gvars, lvars, ivars>>
NotPlacerNorWorld == <<bvars, tvars, cvars, xvars, mvars, nvars, gvars, lvars, ivars>>
NotWorld == <<bvars, tvars, cvars, svars, xvars, mvars, nvars, gvars, lvars, ivars>>

NotSettings == <<bvars, tvars, cvars, svars, wvars, mvars, nvars, gvars, lvars, ivars>>

NotTemplates == <<bvars, tvars, cvars, svars, wvars, xvars, nvars, gvars, lvars, ivars>>

NotNames == <<bvars, tvars, cvars, svars, wvars, xvars, mvars, gvars, lvars, ivars>>
NotGenerator == <<bvars, tvars, cvars, svars, wvars, xvars, mvars, nvars, lvars, ivars>>
NotMessages == <<bvars, tvars, cvars, svars, wvars, xvars, mvars, nvars, gvars, ivars>>
NotInput == <<bvars, tvars, cvars, svars, wvars, xvars, mvars, nvars, gvars, lvars>>
\* the state of a component that a specification does not exercise
BiomeIdle ==
    /\ b_settings = <<>> /\ b_heightmap = <<>> /\ b_temperature = <<>>
    /\ b_precipitation = <<>> /\ biome_map = <<>> /\ b_pc = "idle"
TerrainIdle ==
    /\ t_input = <<>> /\ heightmap = <<>> /\ t_stage = "idle" /\ t_iter = 0
    /\ min_slope = 0
ClimateIdle ==
    /\ c_ocean_level = 0 /\ c_heightmap = <<>> /\ c_normal = <<>>
    /\ temperature = <<>> /\ precipitation = <<>>
PlacerIdle ==
    /\ s_seed = 0 /\ rng = 0 /\ name_models = <<>> /\ s_heightmap = <<>>
    /\ settlement_counts = <<>> /\ rng_state = 0 /\ settlements = <<>>
    /\ habitability = <<>> /\ type_habitability = <<>> /\ s_type = 0
    /\ s_placed = 0 /\ attempts = 0 /\ used_percentile = 0 /\ s_pc = "idle"
WorldIdle ==
    /\ w_seed = 0 /\ w_erosion = FALSE /\ w_biomes = <<>> /\ terrain_seed = 0 /\ terrain_rng = 0
    /\ biome_rng = 0 /\ world = <<>> /\ worlds = <<>> /\ w_others = 0 /\ w_pc = "idle"
SettingsIdle ==
    /\ x_call = <<>> /\ x_result = <<>> /\ x_pc = "idle"
TemplatesIdle ==
    /\ m_files = <<>> /\ templates = <<>> /\ fresh_templates = <<>>
    /\ m_load = <<>> /\ m_last = <<>> /\ m_pc = "idle" /\ m_ops = 0
    /\ m_saves_only = TRUE
NamesIdle ==
    /\ n_type = 0 /\ n_models = <<>> /\ n_rng = 0 /\ n_result = <<>> /\ n_pc = "idle"
GeneratorIdle ==
    /\ g_seed = 0 /\ g_shape = <<>> /\ g_rng = 0 /\ g_maps = <<>> /\ g_input = <<>>
    /\ g_grid = <<>> /\ g_height = 0 /\ g_drops = <<>> /\ g_done = 0 /\ g_pc = "idle"
MessagesIdle ==
    /\ messages = <<>> /\ max_messages = 0 /\ console_width = 0 /\ appended = <<>>
    /\ adds = 0
InputIdle ==
    /\ current_state = <<>> /\ pressed_keys = {} /\ MOVEMENT_KEYS = <<>>
    /\ returned = <<>>

One == 10 * 100     \* 1.0 in thousandths

(***************************************************************************)
(* BiomeType                                                               *)
(***************************************************************************)
OCEAN == 1
SHALLOW_OCEAN == 2
BEACH == 3
TUNDRA == 4
COLD_DESERT == 5
GRASSLAND == 6
TEMPERATE_FOREST == 7
TEMPERATE_RAINFOREST == 8
SAVANNA == 9
DESERT == 10
TROPICAL_RAINFOREST == 11
MOUNTAIN == 12
SNOW_PEAKS == 13

BiomeType == OCEAN .. SNOW_PEAKS

(***************************************************************************)
(* Numbers of the classifier: <<thousandths, ulp>>.                        *)
(***************************************************************************)
Lit(k) == <<k, 0>>

FLt(a, b) == a[1] < b[1] \/ (a[1] = b[1] /\ a[2] < b[2])
FGt(a, b) == FLt(b, a)

\* ocean_level - 0.1 in binary64, for the ocean levels of the model:
\* 0.4 - 0.1 = 0.30000000000000004, 0.35 - 0.1 = 0.24999999999999997.
OceanMinusTenth(o) ==
    <<o[1] - 100, CASE o[1] = 400 -> 1 [] o[1] = 350 -> -1 [] o[1] = 300 -> -1 [] OTHER -> 0>>

\* ocean_level + 0.05 in binary64: 0.35 + 0.05 = 0.39999999999999997,
\* 0.4 + 0.05 = 0.45.
OceanPlusBeach(o) ==
    <<o[1] + 50, CASE o[1] = 350 -> -1 [] OTHER -> 0>>

MkSettings(ocean, mountain, cold, temperate, dry, wet) ==
    [ocean_level |-> Lit(ocean), mountain_level |-> Lit(mountain),
     cold_thresh |-> Lit(cold), temperate_thresh |-> Lit(temperate),
     dry_thresh |-> Lit(dry), wet_thresh |-> Lit(wet)]

\* BiomeSettings.from_config defaults
DefaultSettings == MkSettings(350, 650, 300, 600, 300, 600)
\* the settings of tests/test_biome_generator.py
TestSettings == MkSettings(400, 700, 200, 600, 200, 600)
\* thresholds in unusual order: mountain_level below ocean_level + 0.05,
\* and cold_thresh above temperate_thresh, wet_thresh below dry_thresh
LowMountainSettings == MkSettings(400, 300, 200, 600, 200, 600)
CrossedSettings == MkSettings(350, 650, 600, 300, 600, 300)

SettingsChoices == {DefaultSettings, TestSettings, LowMountainSettings, CrossedSettings}

\* One cell of assign_biomes' loop body.
BiomeOf_NoElse(height_val, temp_val, precip_val, s) ==
    IF FLt(height_val, s.ocean_level)
    THEN IF FLt(height_val, OceanMinusTenth(s.ocean_level)) THEN OCEAN ELSE SHALLOW_OCEAN
    ELSE IF FLt(height_val, OceanPlusBeach(s.ocean_level)) THEN BEACH
    ELSE IF FGt(height_val, s.mountain_level)
    THEN IF FLt(temp_val, s.cold_thresh) THEN SNOW_PEAKS ELSE MOUNTAIN
    ELSE IF FLt(temp_val, s.cold_thresh)
    THEN IF FLt(precip_val, s.dry_thresh) THEN COLD_DESERT ELSE TUNDRA
    ELSE IF FLt(temp_val, s.temperate_thresh)
    THEN IF FLt(precip_val, s.dry_thresh) THEN GRASSLAND
         ELSE IF FLt(precip_val, s.wet_thresh) THEN TEMPERATE_FOREST
         ELSE TEMPERATE_RAINFOREST
    ELSE IF FLt(precip_val, s.dry_thresh) THEN DESERT
         ELSE IF FLt(precip_val, s.wet_thresh) THEN SAVANNA
         ELSE 0

BiomeOf_LaxBounds(height_val, temp_val, precip_val, s) ==
    IF ~FGt(height_val, s.ocean_level)
    THEN IF ~FGt(height_val, OceanMinusTenth(s.ocean_level)) THEN OCEAN ELSE SHALLOW_OCEAN
    ELSE IF ~FGt(height_val, OceanPlusBeach(s.ocean_level)) THEN BEACH
    ELSE IF ~FLt(height_val, s.mountain_level)
    THEN IF ~FGt(temp_val, s.cold_thresh) THEN SNOW_PEAKS ELSE MOUNTAIN
    ELSE IF ~FGt(temp_val, s.cold_thresh)
    THEN IF ~FGt(precip_val, s.dry_thresh) THEN COLD_DESERT ELSE TUNDRA
    ELSE IF ~FGt(temp_val, s.temperate_thresh)
    THEN IF ~FGt(precip_val, s.dry_thresh) THEN GRASSLAND
         ELSE IF ~FGt(precip_val, s.wet_thresh) THEN TEMPERATE_FOREST
         ELSE TEMPERATE_RAINFOREST
    ELSE IF ~FGt(precip_val, s.dry_thresh) THEN DESERT
         ELSE IF ~FGt(precip_val, s.wet_thresh) THEN SAVANNA
         ELSE TROPICAL_RAINFOREST

BiomeOf(height_val, temp_val, precip_val, s) ==
    IF FLt(height_val, s.ocean_level)
    THEN IF FLt(height_val, OceanMinusTenth(s.ocean_level)) THEN OCEAN ELSE SHALLOW_OCEAN
    ELSE IF FLt(height_val, OceanPlusBeach(s.ocean_level)) THEN BEACH
    ELSE IF FGt(height_val, s.mountain_level)
    THEN IF FLt(temp_val, s.cold_thresh) THEN SNOW_PEAKS ELSE MOUNTAIN
    ELSE IF FLt(temp_val, s.cold_thresh)
    THEN IF FLt(precip_val, s.dry_thresh) THEN COLD_DESERT ELSE TUNDRA
    ELSE IF FLt(temp_val, s.temperate_thresh)
    THEN IF FLt(precip_val, s.dry_thresh) THEN GRASSLAND
         ELSE IF FLt(precip_val, s.wet_thresh) THEN TEMPERATE_FOREST
         ELSE TEMPERATE_RAINFOREST
    ELSE IF FLt(precip_val, s.dry_thresh) THEN DESERT
         ELSE IF FLt(precip_val, s.wet_thresh) THEN SAVANNA
         ELSE TROPICAL_RAINFOREST

\* The grids of the model mirror the tests' construction: np.full(base) with
\* one region overwritten.  Cell 1 is the region, the others keep the base.
BiomeCols == 2
BiomeCells == 1 .. BiomeCols

\* heights: the thresholds of every settings choice, the literal scenarios
\* (0.39, 0.41, 0.9, 0.5), the tests' regions (0.3, 0.8) and the computed
\* thresholds themselves
HeightLits == {200, 250, 300, 350, 390, 400, 410, 450, 500, 650, 700, 800, 900}
TempLits == {100, 200, 300, 500, 600, 800}
PrecipLits == {100, 200, 300, 500, 600, 800}

HeightInputs(s) ==
    {Lit(k) : k \in HeightLits}
        \cup {OceanMinusTenth(s.ocean_level), OceanPlusBeach(s.ocean_level)}
TempInputs == {Lit(k) : k \in TempLits}
PrecipInputs == {Lit(k) : k \in PrecipLits}

\* np.full((height, width), base) with region cell 1 set to v
FullWithRegion(base, v) == [c \in BiomeCells |-> IF c = 1 THEN v ELSE base]

\* the base fills of test_assign_biomes (0.5, 0.5, 0.5) and of
\* test_biome_assignment_edge_cases (ocean_level, cold_thresh, dry_thresh)
BaseFills(s) == { <<Lit(500), Lit(500), Lit(500)>>,
                  <<s.ocean_level, s.cold_thresh, s.dry_thresh>> }

BiomeInit ==
    /\ b_settings \in SettingsChoices
    /\ \E base \in BaseFills(b_settings) :
         /\ b_heightmap \in {FullWithRegion(base[1], v) : v \in HeightInputs(b_settings)}
         /\ b_temperature \in {FullWithRegion(base[2], v) : v \in TempInputs}
         /\ b_precipitation \in {FullWithRegion(base[3], v) : v \in PrecipInputs}
    /\ biome_map = [c \in BiomeCells |-> 0]
    /\ b_pc = "ready"

\* assign_biomes: the double loop over every cell of the grid.
AssignBiomes ==
    /\ b_pc = "ready"
    /\ biome_map' = [c \in BiomeCells |->
                        BiomeOf(b_heightmap[c], b_temperature[c], b_precipitation[c],
                                b_settings)]
    /\ b_pc' = "assigned"
    /\ UNCHANGED <<b_settings, b_heightmap, b_temperature, b_precipitation>>
    /\ UNCHANGED NotBiome

BiomeNext == AssignBiomes

InitBiome == BiomeInit /\ TerrainIdle /\ ClimateIdle /\ PlacerIdle /\ WorldIdle /\ SettingsIdle /\ TemplatesIdle /\ NamesIdle /\ GeneratorIdle /\ MessagesIdle /\ InputIdle

SpecBiome == InitBiome /\ [][BiomeNext]_vars

(***************************************************************************)
(* Claims about assign_biomes                                              *)
(***************************************************************************)
CellTriple(c) == <<b_heightmap[c], b_temperature[c], b_precipitation[c]>>

\* C7: assign_biomes is total and single-valued: after the call every cell
\* holds exactly one member of BiomeType (never the initial 0), whatever the
\* order of the thresholds, and two cells with the same (elevation,
\* temperature, precipitation) triple hold the same label.
C7_AssignBiomesTotal ==
    b_pc = "assigned" =>
        /\ \A c \in BiomeCells : biome_map[c] \in BiomeType
        /\ \A c, d \in BiomeCells :
              CellTriple(c) = CellTriple(d) => biome_map[c] = biome_map[d]

\* a cell of the beach band that is also above a mountain_level set below
\* ocean_level + 0.05 has been classified
C7_Witness ==
    /\ b_pc = "assigned"
    /\ b_settings = LowMountainSettings
    /\ b_heightmap[1] = Lit(410)
    /\ biome_map[1] = BEACH
    /\ biome_map[2] \in BiomeType

\* The decision table of the specification, in precedence order.
TempBand(t, s) ==
    IF FLt(t, s.cold_thresh) THEN "cold"
    ELSE IF FLt(t, s.temperate_thresh) THEN "temperate" ELSE "warm"

PrecipBand(p, s) ==
    IF FLt(p, s.dry_thresh) THEN "dry"
    ELSE IF FLt(p, s.wet_thresh) THEN "moderate" ELSE "wet"

BandTable ==
    [cold      |-> [dry |-> COLD_DESERT, moderate |-> TUNDRA, wet |-> TUNDRA],
     temperate |-> [dry |-> GRASSLAND, moderate |-> TEMPERATE_FOREST,
                    wet |-> TEMPERATE_RAINFOREST],
     warm      |-> [dry |-> DESERT, moderate |-> SAVANNA, wet |-> TROPICAL_RAINFOREST]]

\* the cold band has two labels only: with wet_thresh below dry_thresh a
\* precipitation under the dry threshold is dry before it is anything else
DecisionTable(h, t, p, s) ==
    CASE FLt(h, OceanMinusTenth(s.ocean_level)) -> OCEAN
      [] ~FLt(h, OceanMinusTenth(s.ocean_level)) /\ FLt(h, s.ocean_level) -> SHALLOW_OCEAN
      [] ~FLt(h, s.ocean_level) /\ FLt(h, OceanPlusBeach(s.ocean_level)) -> BEACH
      [] ~FLt(h, s.ocean_level) /\ ~FLt(h, OceanPlusBeach(s.ocean_level))
            /\ FGt(h, s.mountain_level) ->
                IF TempBand(t, s) = "cold" THEN SNOW_PEAKS ELSE MOUNTAIN
      [] OTHER -> BandTable[TempBand(t, s)][PrecipBand(p, s)]

ColdLabels == {TUNDRA, COLD_DESERT, SNOW_PEAKS}
DryLabels == {COLD_DESERT, GRASSLAND, DESERT}

C9_TestRegions ==
    (b_pc = "assigned" /\ b_settings = TestSettings) =>
        \A c \in BiomeCells :
            /\ CellTriple(c) = <<Lit(300), Lit(500), Lit(500)>> => biome_map[c] = OCEAN
            /\ CellTriple(c) = <<Lit(800), Lit(500), Lit(500)>> => biome_map[c] = SNOW_PEAKS
            /\ CellTriple(c) = <<Lit(500), Lit(100), Lit(500)>> => biome_map[c] = TUNDRA
            /\ CellTriple(c) = <<Lit(500), Lit(800), Lit(100)>> => biome_map[c] = DESERT
            /\ CellTriple(c) = <<Lit(500), Lit(800), Lit(800)>>
                  => biome_map[c] = TROPICAL_RAINFOREST

(***************************************************************************)
(* TerrainGenerator: height redistribution and thermal erosion             *)
(***************************************************************************)
TerrainN == 4                       \* the grid is TerrainN x TerrainN
TerrainCells == (0 .. TerrainN - 1) \X (0 .. TerrainN - 1)    \* <<y, x>>

\* a flat grid with up to two cells set apart
SpikeGrids(base, levels) ==
    { [c \in TerrainCells |-> IF c = c2 THEN v2 ELSE IF c = c1 THEN v1 ELSE base] :
        <<c1, c2, v1, v2>> \in TerrainCells \X TerrainCells \X levels \X levels }

\* normalised noise, heightmap / max_value, in [-1, 1]
NoiseLevels == {-1000, -400, 400, 800, 1000}
NoiseGrids == SpikeGrids(0, NoiseLevels)

\* heightmaps handed to thermal_erosion, in [0, 1]
HeightLevels == {0, 300, 900, 1000}
HeightGrids == SpikeGrids(500, HeightLevels)

\* ErosionSettings.min_slope: 0.01 in the tests' fixture, and 0, 0.3
MinSlopes == {0, 10, 300}

\* np.power(h, 1.1) for h = 0, 0.05, .. 1, rounded to thousandths
Pow11Table ==
    <<0, 37, 79, 124, 170, 218, 266, 315, 365, 415, 467, 518, 570, 623, 675,
      729, 782, 836, 891, 945, 1000>>
Pow11(h) == Pow11Table[(h \div 50) + 1]

\* _redistribute_heights on one cell of the normalised noise
RedistributeCell(n) ==
    LET h == Pow11((n + One) \div 2)
    IN  IF h < 350 THEN (h * 9) \div 10
        ELSE IF h < 650 THEN 350 + ((h - 350) * 11) \div 10
        ELSE 650 + ((h - 650) * 12) \div 10

Interior(c) ==
    /\ c[1] \in 1 .. TerrainN - 2
    /\ c[2] \in 1 .. TerrainN - 2

\* the four axis neighbours (dx, dy) of thermal_erosion's inner loop
Neighbours(c) ==
    { <<c[1], c[2] - 1>>, <<c[1], c[2] + 1>>, <<c[1] - 1, c[2]>>, <<c[1] + 1, c[2]>> }

\* what cell src hands to its neighbour dst in one pass
Transfer(hm, src, dst, slope) ==
    LET diff == hm[src] - hm[dst]
    IN  IF diff > slope THEN diff \div 4 ELSE 0

RECURSIVE SumOver(_, _)
SumOver(f, S) ==
    IF S = {} THEN 0
    ELSE LET c == CHOOSE e \in S : TRUE IN f[c] + SumOver(f, S \ {c})

\* the visits of one pass in the order of the three nested loops: y, then x,
\* then (dx, dy) in [(-1,0), (1,0), (0,-1), (0,1)]; a visit is <<cell, neighbour>>
NumVisits == (TerrainN - 2) * (TerrainN - 2) * 4
CodeOrder ==
    [k \in 1 .. NumVisits |->
        LET y == 1 + (((k - 1) \div 4) \div (TerrainN - 2))
            x == 1 + (((k - 1) \div 4) % (TerrainN - 2))
            n == (k - 1) % 4
        IN  << <<y, x>>,
               CASE n = 0 -> <<y, x - 1>>
                 [] n = 1 -> <<y, x + 1>>
                 [] n = 2 -> <<y - 1, x>>
                 [] n = 3 -> <<y + 1, x>> >>]

\* the same visits in other orders: backwards, and in strides of 5
VisitOrders ==
    {CodeOrder,
     [k \in 1 .. NumVisits |-> CodeOrder[NumVisits + 1 - k]],
     [k \in 1 .. NumVisits |-> CodeOrder[((k * 5) % NumVisits) + 1]]}

\* the body of the innermost loop on each visit in turn: diff is read from
\* grid `read`, the transfer is applied to `eroded`
RECURSIVE ThermalSweep(_, _, _, _)
ThermalSweep(read, eroded, visits, slope) ==
    IF visits = <<>> THEN eroded
    ELSE LET src == Head(visits)[1]
             dst == Head(visits)[2]
             transfer == Transfer(read, src, dst, slope)
         IN  ThermalSweep(read,
                          [eroded EXCEPT ![src] = @ - transfer, ![dst] = @ + transfer],
                          Tail(visits), slope)

\* the loop without the copy: diff is read from the grid being written
RECURSIVE SweepInPlace(_, _, _)
SweepInPlace(hm, visits, slope) ==
    IF visits = <<>> THEN hm
    ELSE LET src == Head(visits)[1]
             dst == Head(visits)[2]
             transfer == Transfer(hm, src, dst, slope)
         IN  SweepInPlace([hm EXCEPT ![src] = @ - transfer, ![dst] = @ + transfer],
                          Tail(visits), slope)

ThermalPass_InPlace(hm, slope) == SweepInPlace(hm, CodeOrder, slope)

\* one pass of thermal_erosion: every transfer is read from the grid of the
\* previous pass (hm) and accumulated into its copy
ThermalPass_BorderLoss(hm, slope) ==
    [c \in TerrainCells |->
        LET given == IF Interior(c)
                     THEN [d \in Neighbours(c) |-> Transfer(hm, c, d, slope)]
                     ELSE [d \in {} |-> 0]
            taken == [d \in {e \in Neighbours(c) \cap TerrainCells : Interior(e) /\ Interior(c)}
                        |-> Transfer(hm, d, c, slope)]
        IN  hm[c] - SumOver(given, DOMAIN given) + SumOver(taken, DOMAIN taken)]

ThermalPass(hm, slope) ==
    [c \in TerrainCells |->
        LET given == IF Interior(c)
                     THEN [d \in Neighbours(c) |-> Transfer(hm, c, d, slope)]
                     ELSE [d \in {} |-> 0]
            taken == [d \in {e \in Neighbours(c) \cap TerrainCells : Interior(e)}
                        |-> Transfer(hm, d, c, slope)]
        IN  hm[c] - SumOver(given, DOMAIN given) + SumOver(taken, DOMAIN taken)]

iterations == 5

TerrainInit ==
    /\ \/ /\ t_stage = "noise"
          /\ heightmap \in NoiseGrids
          /\ min_slope = 0
       \/ /\ t_stage = "thermal"
          /\ heightmap \in HeightGrids
          /\ min_slope \in MinSlopes
    /\ t_input = heightmap
    /\ t_iter = 0

\* generate_heightmap: heightmap = self._redistribute_heights(heightmap)
RedistributeHeights ==
    /\ t_stage = "noise"
    /\ heightmap' = [c \in TerrainCells |-> RedistributeCell(heightmap[c])]
    /\ t_stage' = "redistributed"
    /\ UNCHANGED <<t_input, t_iter, min_slope>>
    /\ UNCHANGED NotTerrain

\* thermal_erosion: one pass of `for _ in range(iterations)`
ThermalIteration ==
    /\ t_stage = "thermal"
    /\ t_iter < iterations
    /\ heightmap' = ThermalPass(heightmap, min_slope)
    /\ t_iter' = t_iter + 1
    /\ UNCHANGED <<t_input, t_stage, min_slope>>
    /\ UNCHANGED NotTerrain

TerrainNext == RedistributeHeights \/ ThermalIteration

InitTerrain == TerrainInit /\ BiomeIdle /\ ClimateIdle /\ PlacerIdle /\ WorldIdle /\ SettingsIdle /\ TemplatesIdle /\ NamesIdle /\ GeneratorIdle /\ MessagesIdle /\ InputIdle

SpecTerrain == InitTerrain /\ [][TerrainNext]_vars

GridSum(hm) == SumOver(hm, TerrainCells)

\* C4: thermal_erosion conserves total elevation: after each of the 5
\* passes the sum of all cells equals the sum of the grid that was passed
\* in, whatever the grid and min_slope (what a cell loses, one neighbour
\* gains, border neighbours included).
C4_ThermalConservesMass ==
    t_stage = "thermal" => GridSum(heightmap) = GridSum(t_input)

\* all five passes ran and material reached a border cell
C4_Witness ==
    /\ t_stage = "thermal"
    /\ t_iter = iterations
    /\ \E c \in TerrainCells : ~Interior(c) /\ heightmap[c] > t_input[c]
    /\ \E c \in TerrainCells : Interior(c) /\ heightmap[c] < t_input[c]

\* C20: a thermal pass gives the grid that the visits give in any order when
\* each reads the heights of the previous pass, and no border cell ends a
\* pass lower than it began, whatever its height.
C20_ThermalReadsSnapshot ==
    [][(t_stage = "thermal" /\ t_iter' = t_iter + 1) =>
          /\ \A order \in VisitOrders :
                heightmap' = ThermalSweep(heightmap, heightmap, order, min_slope)
          /\ \A c \in TerrainCells :
                ~Interior(c) =>
                    heightmap'[c] = heightmap[c]
                        + SumOver([d \in {e \in Neighbours(c) \cap TerrainCells : Interior(e)}
                                     |-> Transfer(heightmap, d, c, min_slope)],
                                  {e \in Neighbours(c) \cap TerrainCells : Interior(e)})]_vars

\* after the first pass: a border cell that stood above an interior
\* neighbour by more than min_slope kept its height, another border cell
\* gained, and an interior cell both gave and received
C20_Witness ==
    /\ t_stage = "thermal"
    /\ t_iter = 1
    /\ \E b \in TerrainCells :
          /\ ~Interior(b)
          /\ \E d \in Neighbours(b) \cap TerrainCells :
                Interior(d) /\ t_input[b] - t_input[d] > min_slope
          /\ heightmap[b] = t_input[b]
    /\ \E c \in TerrainCells : ~Interior(c) /\ heightmap[c] > t_input[c]
    /\ \E c, d \in TerrainCells :
          /\ Interior(c) /\ Interior(d) /\ d \in Neighbours(c)
          /\ t_input[c] - t_input[d] > min_slope
          /\ \E e \in Neighbours(d) : t_input[d] - t_input[e] > min_slope

\* C5: every cell of the elevation field is in [0,1] after every stage that
\* touches it (height redistribution of any normalised noise value in
\* [-1,1], thermal erosion).
C5_ElevationInUnitRange ==
    t_stage \in {"redistributed", "thermal"} =>
        \A c \in TerrainCells : heightmap[c] >= 0 /\ heightmap[c] <= One

(***************************************************************************)
(* BiomeGenerator: temperature and precipitation maps                      *)
(*                                                                         *)
(* A cell holds a number in thousandths or nan.  The grid is 2 x 2, the    *)
(* smallest np.gradient accepts; on it linspace has the two end points     *)
(* only and every sine and cosine of the code is exact.                    *)
(***************************************************************************)
\* nan, a value no arithmetic of the model produces
NaN == -(One * One * One)

c_height == 2
c_width == 2
ClimateCells == (0 .. c_height - 1) \X (0 .. c_width - 1)     \* <<y, x>>

Abs(v) == IF v < 0 THEN -v ELSE v

GridMax(g) == CHOOSE m \in {g[c] : c \in DOMAIN g} : \A c \in DOMAIN g : g[c] <= m

\* g / g.max(): 0 / 0 is nan
DivideByMax(g) ==
    IF GridMax(g) = 0 THEN [c \in DOMAIN g |-> NaN]
    ELSE [c \in DOMAIN g |-> (g[c] * One) \div GridMax(g)]

\* np.clip(v, lo, hi): nan stays nan
Clip(v, lo, hi) == IF v = NaN THEN NaN ELSE IF v < lo THEN lo ELSE IF v > hi THEN hi ELSE v

\* sqrt of a squared grid distance 0 .. 8, in thousandths
SqrtTable == <<0, 1000, 1414, 1732, 2000, 2236, 2449, 2646, 2828>>
SqrtMilli(d2) == SqrtTable[d2 + 1]

Dist2(c, d) == (c[1] - d[1]) * (c[1] - d[1]) + (c[2] - d[2]) * (c[2] - d[2])

\* distance_transform_edt(~water_mask): distance to the nearest water cell,
\* 0 on water; with no water cell at all scipy measures from index -1 on
\* every axis
DistanceFromWater(hm, ocean) ==
    LET water == {c \in ClimateCells : hm[c] < ocean}
    IN  [c \in ClimateCells |->
            IF water = {} THEN SqrtMilli(Dist2(c, <<-1, -1>>))
            ELSE LET near == CHOOSE w \in water :
                                \A v \in water : Dist2(c, w) <= Dist2(c, v)
                 IN  SqrtMilli(Dist2(c, near))]

\* np.sin(X/4) for X = linspace(0, 6 pi, 2) and np.cos(Y/4) likewise
SinQuarter(x) == IF x = 0 THEN 0 ELSE -One       \* sin 0, sin(3 pi / 2)
CosQuarter(y) == IF y = 0 THEN One ELSE 0        \* cos 0, cos(3 pi / 2)
Monsoon(c) == (SinQuarter(c[2]) + CosQuarter(c[1])) \div 2

\* |np.gradient(h)[0]| + |np.gradient(h)[1]|: with two samples on an axis
\* the gradient is the one difference, at both of them
Slopes(hm) ==
    [c \in ClimateCells |->
        Abs(hm[<<1, c[2]>>] - hm[<<0, c[2]>>]) + Abs(hm[<<c[1], 1>>] - hm[<<c[1], 0>>])]

\* np.roll(slopes, shift=int(width/8), axis=1)
Roll(g) == [c \in ClimateCells |-> g[<<c[1], (c[2] - (c_width \div 8)) % c_width>>]]

\* np.power(v, 0.8) at a resolution of 0.02: the y with y^5 = v^4
Pow08(v) ==
    IF v = NaN THEN NaN
    ELSE LET q == v \div 20
             r == CHOOSE y \in 0 .. 80 :
                     /\ y * y * y * y * y <= q * q * q * q * 50
                     /\ (y + 1) * (y + 1) * (y + 1) * (y + 1) * (y + 1) > q * q * q * q * 50
         IN  r * 20

\* the weighted sum of the five effects; nan in any term makes nan
PrecipSum(dist, mons, slope, shadow, normal) ==
    IF dist = NaN \/ slope = NaN \/ shadow = NaN THEN NaN
    ELSE (2 * (One - dist) + 3 * mons + 3 * slope + (One - shadow) + normal) \div 10

PrecipitationMap(hm, ocean, normal) ==
    LET dist == DivideByMax(DistanceFromWater(hm, ocean))
        slopes == DivideByMax(Slopes(hm))
        shadow == Roll(slopes)
    IN  [c \in ClimateCells |->
            LET raw == PrecipSum(dist[c], Monsoon(c), slopes[c], shadow[c], normal[c])
                floored == IF raw = NaN THEN NaN ELSE IF raw < 0 THEN 0 ELSE raw
            IN  Clip(Pow08(Pow08(floored)), 0, One)]

\* 1.2 - |y|^0.75 for y = linspace(-1, 1, 2): 0.2 on both rows
BaseTemp(c) == 200
\* 0.4 sin(X/3) cos(Y/3), X and Y = linspace(0, 4 pi, 2):
\* sin(4 pi / 3) = -0.866, cos(4 pi / 3) = -0.5
Continental(c) ==
    (4 * (IF c[2] = 0 THEN 0 ELSE -866) * (IF c[1] = 0 THEN One ELSE -500)) \div (10 * One)
\* 0.2 sin(X) cos(Y): sin 0 = sin 4 pi = 0
Regional(c) == 0

TemperatureMap(normal) ==
    [c \in ClimateCells |->
        Clip((50 * BaseTemp(c) + 25 * Continental(c) + 15 * Regional(c) + normal[c]) \div 100,
             0, (12 * One) \div 10)]

\* heightmaps: flat (all water, or all land), and mixed
ClimateHeights == {200, 500, 800}
ClimateNormals == {-3000, 0, 3000}

ClimateInit ==
    /\ c_ocean_level \in {350, 400}
    /\ c_heightmap \in [ClimateCells -> ClimateHeights]
    /\ c_normal \in [ClimateCells -> ClimateNormals]
    /\ temperature = <<>>
    /\ precipitation = <<>>

\* generate_temperature_map(height, width, seed)
GenerateTemperatureMap ==
    /\ temperature = <<>>
    /\ temperature' = TemperatureMap(c_normal)
    /\ UNCHANGED <<c_ocean_level, c_heightmap, c_normal, precipitation>>
    /\ UNCHANGED NotClimate

\* generate_precipitation_map(heightmap, seed)
GeneratePrecipitationMap ==
    /\ temperature # <<>>
    /\ precipitation = <<>>
    /\ precipitation' = PrecipitationMap(c_heightmap, c_ocean_level, c_normal)
    /\ UNCHANGED <<c_ocean_level, c_heightmap, c_normal, temperature>>
    /\ UNCHANGED NotClimate

ClimateNext == GenerateTemperatureMap \/ GeneratePrecipitationMap

InitClimate == ClimateInit /\ BiomeIdle /\ TerrainIdle /\ PlacerIdle /\ WorldIdle /\ SettingsIdle /\ TemplatesIdle /\ NamesIdle /\ GeneratorIdle /\ MessagesIdle /\ InputIdle

SpecClimate == InitClimate /\ [][ClimateNext]_vars

\* C6: for every input heightmap (none, some or all cells water; flat or
\* not) and every seed, every cell of the precipitation map is a defined
\* number in [0,1] and every cell of the temperature map is a defined number
\* in [0,1.2].
C6_ClimateDefinedInRange ==
    /\ temperature # <<>> =>
          \A c \in ClimateCells :
              temperature[c] # NaN /\ temperature[c] >= 0
                  /\ temperature[c] * 10 <= 12 * One
    /\ precipitation # <<>> =>
          \A c \in ClimateCells :
              precipitation[c] # NaN /\ precipitation[c] >= 0 /\ precipitation[c] <= One

(***************************************************************************)
(* The random stream                                                       *)
(*                                                                         *)
(* A bit generator is its state, a 16-bit linear congruential generator    *)
(* standing in for PCG64: a seed fixes the state, a draw advances it, and  *)
(* the state can be read and written back (bit_generator.state).           *)
(***************************************************************************)
\* np.random.default_rng(seed)
RngSeed(seed) == (seed * 2053 + 13) % 65536
\* the state after one draw
RngNext(s) == (s * 25173 + 13849) % 65536
\* rng.integers(n) read off the state the draw left
RngInt(s, n) == (s \div 16) % n

(***************************************************************************)
(* NameGenerator                                                           *)
(***************************************************************************)
\* the order-2 model _build_markov_model makes of the corpus {aba, abba}:
\* context -> <<next char, count>> in insertion order
TinyModel ==
    (<<" ", " ">> :> << <<"a", 2>> >>) @@
    (<<" ", "a">> :> << <<"b", 2>> >>) @@
    (<<"a", "b">> :> << <<"a", 1>>, <<"b", 1>> >>) @@
    (<<"b", "a">> :> << <<" ", 2>> >>) @@
    (<<"b", "b">> :> << <<"a", 1>> >>)

\* markov_models: no data directory, or one file default.txt
NoModels == <<>>
DefaultModels == [default |-> TinyModel]

min_length == 3
max_length == 12

RECURSIVE TotalWeight(_)
TotalWeight(probs) ==
    IF probs = <<>> THEN 0 ELSE probs[1][2] + TotalWeight(Tail(probs))

\* rng.choice(chars, p=weights): the first char whose cumulative weight
\* passes the draw
RECURSIVE PickChar(_, _)
PickChar(probs, r) ==
    IF Len(probs) = 1 \/ r < probs[1][2] THEN probs[1][1]
    ELSE PickChar(Tail(probs), r - probs[1][2])

RECURSIVE Strip(_)
Strip(name) ==
    IF name = <<>> THEN name
    ELSE IF name[1] = " " THEN Strip(Tail(name))
    ELSE IF name[Len(name)] = " " THEN Strip(SubSeq(name, 1, Len(name) - 1))
    ELSE name

Upper(ch) == IF ch = "a" THEN "A" ELSE IF ch = "b" THEN "B" ELSE ch
Title(name) ==
    [i \in 1 .. Len(name) |->
        IF i = 1 \/ name[i - 1] = " " THEN Upper(name[i]) ELSE name[i]]

\* the while loop of generate_name: the name and the stream after it, or
\* raised = "KeyError" when the context has no entry in the model
RECURSIVE NameLoop(_, _, _)
NameLoop(model, name, s) ==
    LET current == SubSeq(name, Len(name) - 1, Len(name))
    IN  IF current \notin DOMAIN model
        THEN [raised |-> "KeyError", name |-> <<>>, rng |-> s]
        ELSE LET s1 == RngNext(s)
                 next_char == PickChar(model[current],
                                       RngInt(s1, TotalWeight(model[current])))
                 grown == Append(name, next_char)
             IN  IF (next_char = " " /\ Len(Strip(grown)) >= min_length)
                     \/ Len(Strip(grown)) >= max_length
                 THEN [raised |-> "", name |-> Title(Strip(grown)), rng |-> s1]
                 ELSE CHOOSE result \in
                          {NameLoop(model, g, t) : g \in {grown}, t \in {s1}} : TRUE

\* f"{epoch}_{name_type}" with epoch "empire"
ModelKey(name_type) ==
    CASE name_type = "settlement" -> "empire_settlement"
      [] name_type = "ruins" -> "empire_ruins"
      [] name_type = "dungeon" -> "empire_dungeon"
      [] name_type = "temple" -> "empire_temple"
      [] name_type = "fortress" -> "empire_fortress"

\* markov_models.get(key) followed by `if not model`: a missing key and an
\* empty model are both falsy
HasModel(models, key) == key \in DOMAIN models /\ DOMAIN models[key] # {}

\* NameGenerator.generate_name(epoch="empire", name_type=...): the model of
\* the key, else the default model, else ValueError
GenerateName(models, name_type, s) ==
    IF HasModel(models, ModelKey(name_type))
    THEN NameLoop(models[ModelKey(name_type)], <<" ", " ">>, s)
    ELSE IF HasModel(models, "default")
    THEN NameLoop(models["default"], <<" ", " ">>, s)
    ELSE [raised |-> "ValueError", name |-> <<>>, rng |-> s]

(***************************************************************************)
(* SettlementGenerator                                                     *)
(***************************************************************************)
CAPITAL == 1
CITY == 2
TOWN == 3
VILLAGE == 4
RUINS == 5
DUNGEON == 6
TEMPLE == 7
FORTRESS == 8
SettlementType == CAPITAL .. FORTRESS

min_settlement_distance == <<40, 20, 10, 5, 8, 12, 15, 18>>

\* names are sequences of pieces: a fallback name is one piece
fallback_names ==
    << <<"Capital City">>, <<"Great City">>, <<"Small Town">>, <<"Village">>,
       <<"Ancient Ruins">>, <<"Dark Dungeon">>, <<"Holy Temple">>, <<"Mighty Fortress">> >>

max_attempts == 1000
percentile == 90

PlaceRows == 2
PlaceCols == 14
PlaceCells == (0 .. PlaceRows - 1) \X (0 .. PlaceCols - 1)      \* <<y, x>>
NumSeeds == 2

\* 1000 exp(-sqrt(d2) / 5) for squared distances d2 = 0 .. 299
ExpDecayTable ==
    <<
     1000, 819, 754, 707, 670, 639, 613, 589, 568, 549, 531, 515, 500, 486,
     473, 461, 449, 438, 428, 418, 409, 400, 391, 383, 375, 368, 361, 354,
     347, 341, 334, 328, 323, 317, 312, 306, 301, 296, 291, 287, 282, 278,
     274, 269, 265, 261, 258, 254, 250, 247, 243, 240, 236, 233, 230, 227,
     224, 221, 218, 215, 212, 210, 207, 204, 202, 199, 197, 195, 192, 190,
     188, 185, 183, 181, 179, 177, 175, 173, 171, 169, 167, 165, 163, 162,
     160, 158, 156, 155, 153, 152, 150, 148, 147, 145, 144, 142, 141, 139,
     138, 137, 135, 134, 133, 131, 130, 129, 128, 126, 125, 124, 123, 122,
     120, 119, 118, 117, 116, 115, 114, 113, 112, 111, 110, 109, 108, 107,
     106, 105, 104, 103, 102, 101, 100, 100, 99, 98, 97, 96, 95, 95, 94, 93,
     92, 91, 91, 90, 89, 88, 88, 87, 86, 86, 85, 84, 84, 83, 82, 82, 81, 80,
     80, 79, 78, 78, 77, 77, 76, 75, 75, 74, 74, 73, 73, 72, 71, 71, 70, 70,
     69, 69, 68, 68, 67, 67, 66, 66, 65, 65, 64, 64, 63, 63, 63, 62, 62, 61,
     61, 60, 60, 60, 59, 59, 58, 58, 57, 57, 57, 56, 56, 56, 55, 55, 54, 54,
     54, 53, 53, 53, 52, 52, 51, 51, 51, 50, 50, 50, 49, 49, 49, 48, 48, 48,
     48, 47, 47, 47, 46, 46, 46, 45, 45, 45, 45, 44, 44, 44, 43, 43, 43, 43,
     42, 42, 42, 42, 41, 41, 41, 41, 40, 40, 40, 40, 39, 39, 39, 39, 38, 38,
     38, 38, 37, 37, 37, 37, 36, 36, 36, 36, 36, 35, 35, 35, 35, 35, 34, 34,
     34, 34, 34, 33, 33, 33, 33, 33, 32, 32, 32, 32, 32, 31
    >>
ExpDecay(d2) == ExpDecayTable[d2 + 1]

\* the name type Settlement.generate_name asks for, by settlement type
name_type_mapping ==
    <<"settlement", "settlement", "settlement", "settlement",
      "ruins", "dungeon", "temple", "fortress">>

\* an except clause that names ValueError only
Caught_ValueErrorOnly == {"ValueError"}

\* except (KeyError, ValueError)
Caught == {"KeyError", "ValueError"}

\* Settlement.generate_name: the generated name, or the fallback of the type
\* when generate_name raised KeyError or ValueError
SettlementName(type, generated) ==
    IF generated.raised \in Caught
    THEN fallback_names[type]
    ELSE generated.name

\* habitability / habitability.max() when the maximum is positive
NormalizeToUnit(raw) ==
    IF GridMax(raw) > 0
    THEN [c \in PlaceCells |-> (raw[c] * One) \div GridMax(raw)]
    ELSE raw

\* _calculate_habitability
CalculateHabitability(hm) ==
    LET water == {c \in PlaceCells : hm[c] < 300}
        d2(c) == IF water = {} THEN Dist2(c, <<-1, -1>>)
                 ELSE LET near == CHOOSE w \in water :
                                     \A v \in water : Dist2(c, w) <= Dist2(c, v)
                      IN  Dist2(c, near)
        scores == [c \in PlaceCells |->
                      IF hm[c] < 300 THEN 0
                      ELSE LET b == 500 + ExpDecay(d2(c)) \div 2
                           IN  IF hm[c] > 700 THEN b \div 2 ELSE b]
    IN  CHOOSE h \in {NormalizeToUnit(raw) : raw \in {scores}} : TRUE

Max(a, b) == IF a >= b THEN a ELSE b
Min(a, b) == IF a <= b THEN a ELSE b

\* _is_valid_position: on land, and no closer to any settlement than the
\* larger of the two types' minimum distances
IsValidPosition_SmallerDistance(position, settlement_type, existing, hm) ==
    /\ ~(hm[position] < 300)
    /\ \A i \in 1 .. Len(existing) :
          LET min_distance == Min(min_settlement_distance[settlement_type],
                                  min_settlement_distance[existing[i].type])
          IN  ~(Dist2(position, existing[i].position) < min_distance * min_distance)

IsValidPosition(position, settlement_type, existing, hm) ==
    /\ ~(hm[position] < 300)
    /\ \A i \in 1 .. Len(existing) :
          LET min_distance == Max(min_settlement_distance[settlement_type],
                                  min_settlement_distance[existing[i].type])
          IN  ~(Dist2(position, existing[i].position) < min_distance * min_distance)

\* the k-th smallest value of a grid, k = 0 .. n-1
SortedAt(g, k) ==
    CHOOSE v \in {g[c] : c \in DOMAIN g} :
        /\ Cardinality({c \in DOMAIN g : g[c] < v}) <= k
        /\ Cardinality({c \in DOMAIN g : g[c] <= v}) > k

\* 100 np.percentile(g, q), linear interpolation between the two nearest
\* ranks
Percentile100(g, q) ==
    LET n == Cardinality(DOMAIN g)
        lo == (q * (n - 1)) \div 100
        rem == (q * (n - 1)) % 100
    IN  IF rem = 0 THEN 100 * SortedAt(g, lo)
        ELSE 100 * SortedAt(g, lo) + rem * (SortedAt(g, lo + 1) - SortedAt(g, lo))

\* np.where(g >= threshold)
AtLeast(g, threshold100) == {c \in DOMAIN g : 100 * g[c] >= threshold100}

\* np.where lists the candidates in row-major order
CellIndex(c) == c[1] * PlaceCols + c[2]
NthCandidate(cands, idx) ==
    CHOOSE c \in cands : Cardinality({e \in cands : CellIndex(e) < CellIndex(c)}) = idx

\* a relaxation that counts the hundreds among the attempts already failed
AttemptPercentile_FailedHundreds(a) == Max(0, percentile - ((a - 1) \div 100) * 10)

\* the percentile of the attempt numbered a since the last placement:
\* attempts += 1, then max(0, percentile - (attempts // 100) * 10)
AttemptPercentile(a) == Max(0, percentile - (a \div 100) * 10)

\* type_habitability[y_start:y_end, x_start:x_end] *= 1 - mask[:mh, :mw] * 0.8
\* where mask is the disc of the given radius centred in a (2r+1)^2 array
SuppressAround(g, pos, radius) ==
    LET y_start == Max(0, pos[1] - radius)
        y_end == Min(PlaceRows, pos[1] + radius + 1)
        x_start == Max(0, pos[2] - radius)
        x_end == Min(PlaceCols, pos[2] + radius + 1)
    IN  [c \in DOMAIN g |->
            IF /\ c[1] >= y_start /\ c[1] < y_end
               /\ c[2] >= x_start /\ c[2] < x_end
               /\ (c[2] - x_start - radius) * (c[2] - x_start - radius)
                    + (c[1] - y_start - radius) * (c[1] - y_start - radius)
                    <= radius * radius
            THEN (g[c] * 2) \div 10
            ELSE g[c]]

\* heightmaps: a coast with mountains inland, open sea, an island
CoastMap == [c \in PlaceCells |->
                IF c[2] = 0 THEN 200 ELSE IF c[2] >= PlaceCols - 3 THEN 800 ELSE 500]
SeaMap == [c \in PlaceCells |-> 200]
IslandMap == [c \in PlaceCells |->
                IF c[2] = 0 \/ c[2] = PlaceCols - 1 \/ c = <<0, 6>> THEN 200 ELSE 500]

\* calls: heightmap, requested counts (capitals, cities, towns, villages,
\* ruins, dungeons, temples, fortresses), name models
Calls ==
    { <<CoastMap,  <<0, 0, 0, 0, 0, 0, 0, 0>>, DefaultModels>>,
      <<CoastMap,  <<0, 0, 0, 3, 1, 0, 0, 0>>, DefaultModels>>,
      <<CoastMap,  <<1, 0, 0, 1, 0, 0, 0, 0>>, NoModels>>,
      <<IslandMap, <<0, 0, 1, 2, 0, 1, 0, 0>>, NoModels>>,
      <<IslandMap, <<0, 0, 0, 2, 1, 0, 0, 0>>, DefaultModels>>,
      <<SeaMap,    <<0, 0, 0, 1, 0, 0, 0, 0>>, DefaultModels>> }

PlacerInit ==
    /\ s_seed \in 1 .. NumSeeds
    /\ rng = RngSeed(s_seed)
    /\ \E call \in Calls :
          /\ s_heightmap = call[1]
          /\ settlement_counts = call[2]
          /\ name_models = call[3]
    /\ rng_state = 0
    /\ settlements = <<>>
    /\ habitability = <<>>
    /\ type_habitability = <<>>
    /\ s_type = 0
    /\ s_placed = 0
    /\ attempts = 0
    /\ used_percentile = 0
    /\ s_pc = "start"

\* generate_settlements up to the first pass of the loop over the types
EnterGenerateSettlements ==
    /\ s_pc = "start"
    /\ rng_state' = rng
    /\ settlements' = <<>>
    /\ habitability' = CalculateHabitability(s_heightmap)
    /\ type_habitability' = habitability'
    /\ s_type' = CAPITAL
    /\ s_placed' = 0
    /\ attempts' = 0
    /\ used_percentile' = 0
    /\ s_pc' = "placing"
    /\ UNCHANGED <<s_seed, rng, name_models, s_heightmap, settlement_counts>>
    /\ UNCHANGED NotPlacer

\* a list that takes each new settlement at its front
Placed_First(list, settlement) == <<settlement>> \o list

\* settlements.append(settlement)
Placed(list, settlement) == Append(list, settlement)

\* a while loop without the bound on attempts
WithinBudget_Unbounded(a) == TRUE

\* `attempts < max_attempts` of the while condition
WithinBudget(a) == a < max_attempts

InWhileLoop ==
    /\ s_pc = "placing"
    /\ s_type \in SettlementType
    /\ s_placed < settlement_counts[s_type]
    /\ WithinBudget(attempts)

\* the position the next pass of the while loop draws
DrawnPosition(cands) == NthCandidate(cands, RngInt(RngNext(rng), Cardinality(cands)))

\* The threshold is a percentile of type_habitability, so the cell holding
\* the maximum is always a candidate and the `continue` on an empty
\* candidate list is never taken.
\* one pass of the while loop whose candidate is accepted
AttemptAccept ==
    /\ InWhileLoop
    /\ \E threshold \in {Percentile100(type_habitability,
                                       AttemptPercentile(attempts + 1))} :
       \E candidate_positions \in {AtLeast(type_habitability, threshold)} :
       \E pos \in {DrawnPosition(candidate_positions)} :
          /\ IsValidPosition(pos, s_type, settlements, s_heightmap)
          /\ \E named \in {GenerateName(name_models, name_type_mapping[s_type], RngNext(rng))} :
                /\ settlements' = Placed(settlements,
                                     [type |-> s_type, position |-> pos,
                                      name |-> SettlementName(s_type, named),
                                      importance |-> type_habitability[pos]])
                /\ rng' = named.rng
          /\ type_habitability' =
                SuppressAround(type_habitability, pos, min_settlement_distance[s_type])
    /\ s_placed' = s_placed + 1
    /\ attempts' = 0
    /\ used_percentile' = AttemptPercentile(attempts + 1)
    /\ UNCHANGED <<s_seed, name_models, s_heightmap, settlement_counts, rng_state,
                   habitability, s_type, s_pc>>
    /\ UNCHANGED NotPlacer

\* one pass of the while loop whose candidate is rejected
AttemptReject ==
    /\ InWhileLoop
    /\ \E threshold \in {Percentile100(type_habitability,
                                       AttemptPercentile(attempts + 1))} :
       \E candidate_positions \in {AtLeast(type_habitability, threshold)} :
       \E pos \in {DrawnPosition(candidate_positions)} :
          /\ ~IsValidPosition(pos, s_type, settlements, s_heightmap)
          /\ type_habitability' = [type_habitability EXCEPT ![pos] = @ \div 2]
    /\ rng' = RngNext(rng)
    /\ attempts' = attempts + 1
    /\ used_percentile' = AttemptPercentile(attempts + 1)
    /\ UNCHANGED <<s_seed, name_models, s_heightmap, settlement_counts, rng_state,
                   settlements, habitability, s_type, s_placed, s_pc>>
    /\ UNCHANGED NotPlacer

\* a `break` that leaves the loop over the types as well: nothing is tried
\* after a type is abandoned
NextType_StopsAtFailure ==
    /\ s_pc = "placing"
    /\ s_type \in SettlementType
    /\ \/ s_placed = settlement_counts[s_type]
       \/ ~WithinBudget(attempts)
    /\ s_type' = IF s_placed = settlement_counts[s_type] THEN s_type + 1 ELSE FORTRESS + 1
    /\ type_habitability' = habitability
    /\ s_placed' = 0
    /\ attempts' = 0
    /\ UNCHANGED used_percentile
    /\ UNCHANGED <<s_seed, rng, name_models, s_heightmap, settlement_counts, rng_state,
                   settlements, habitability, s_pc>>
    /\ UNCHANGED NotPlacer

\* the type is finished: its count is placed, or the attempts ran out and
\* the rest of the type is abandoned
NextType ==
    /\ s_pc = "placing"
    /\ s_type \in SettlementType
    /\ \/ s_placed = settlement_counts[s_type]
       \/ ~WithinBudget(attempts)
    /\ s_type' = s_type + 1
    /\ type_habitability' = habitability
    /\ s_placed' = 0
    /\ attempts' = 0
    /\ UNCHANGED used_percentile
    /\ UNCHANGED <<s_seed, rng, name_models, s_heightmap, settlement_counts, rng_state,
                   settlements, habitability, s_pc>>
    /\ UNCHANGED NotPlacer

\* the state written back before `return settlements`
RestoredState_Advanced(saved, current) == current

RestoredState(saved, current) == saved

ReturnSettlements ==
    /\ s_pc = "placing"
    /\ s_type = FORTRESS + 1
    /\ rng' = RestoredState(rng_state, rng)
    /\ s_pc' = "returned"
    /\ UNCHANGED <<s_seed, name_models, s_heightmap, settlement_counts, rng_state,
                   settlements, habitability, type_habitability, s_type, s_placed,
                   attempts, used_percentile>>
    /\ UNCHANGED NotPlacer

PlacerNext ==
    \/ EnterGenerateSettlements
    \/ AttemptAccept
    \/ AttemptReject
    \/ NextType
    \/ ReturnSettlements

InitPlacer == PlacerInit /\ BiomeIdle /\ TerrainIdle /\ ClimateIdle /\ WorldIdle /\ SettingsIdle /\ TemplatesIdle /\ NamesIdle /\ GeneratorIdle /\ MessagesIdle /\ InputIdle

SpecPlacer == InitPlacer /\ [][PlacerNext]_vars

\* the call runs in one thread that nothing suspends: a step that can be
\* taken is taken
SpecPlacerLive == SpecPlacer /\ WF_vars(PlacerNext)

\* the squared distance that two settlements of these types must keep
Separation2(t1, t2) ==
    Max(min_settlement_distance[t1], min_settlement_distance[t2])
        * Max(min_settlement_distance[t1], min_settlement_distance[t2])

\* C1: in every state of a call to generate_settlements, and so after every
\* acceptance and on return, any two distinct settlements of the list are at
\* least max(min_settlement_distance of their types) apart.
C1_SettlementsKeepApart ==
    \A i \in 1 .. Len(settlements) : \A j \in 1 .. Len(settlements) :
        i # j =>
            Dist2(settlements[i].position, settlements[j].position)
                >= Separation2(settlements[i].type, settlements[j].type)

\* a returned list holding two settlements of different types
C1_Witness ==
    /\ s_pc = "returned"
    /\ \E i \in 1 .. Len(settlements) : \E j \in 1 .. Len(settlements) :
          settlements[i].type # settlements[j].type

RECURSIVE SeqSum(_)
SeqSum(q) == IF q = <<>> THEN 0 ELSE Head(q) + SeqSum(Tail(q))

\* C3: when generate_settlements has returned, whether everything was
\* placed, some type was abandoned or nothing was asked for, the bit
\* generator is in the state it had on entry.
C3_RngStateRestored ==
    s_pc = "returned" => rng = RngSeed(s_seed)

\* a call that drew from the stream, placed something and abandoned a type
C3_Witness ==
    /\ s_pc = "returned"
    /\ settlements # <<>>
    /\ Len(settlements) < SeqSum(settlement_counts)

\* the settlements of type t placed so far
PlacedOfType(t) == Cardinality({i \in 1 .. Len(settlements) : settlements[i].type = t})

\* C15: of each type at most the requested count is placed; the loop leaves
\* a type only with its count placed or after max_attempts consecutive failed
\* attempts for one settlement, and then goes on to the next type in the
\* order with the attempt counter at zero; the call returns only after the
\* last type, with what was placed.
C15_AttemptCap ==
    /\ [](s_pc \in {"placing", "returned"} =>
            /\ attempts <= max_attempts
            /\ \A t \in SettlementType :
                  /\ PlacedOfType(t) <= settlement_counts[t]
                  /\ (s_pc = "placing" /\ t = s_type) => PlacedOfType(t) = s_placed
                  /\ t > s_type => PlacedOfType(t) = 0
            /\ s_pc = "returned" => s_type = FORTRESS + 1)
    /\ [][(s_pc = "placing" =>
              /\ attempts' = attempts + 1 => settlements' = settlements
              /\ Len(settlements') > Len(settlements) => attempts' = 0
              /\ s_type' # s_type =>
                    /\ s_placed = settlement_counts[s_type] \/ attempts = max_attempts
                    /\ s_type' = s_type + 1
                    /\ attempts' = 0
                    /\ s_placed' = 0
                    /\ settlements' = settlements)]_vars

\* a type was abandoned short of its count and a later type is being
\* attempted, its own counter having started again from zero
C15_Witness ==
    /\ s_pc = "placing"
    /\ s_type \in SettlementType
    /\ settlement_counts[s_type] > 0
    /\ attempts = 1
    /\ \E t \in SettlementType :
          /\ t < s_type
          /\ PlacedOfType(t) > 0
          /\ PlacedOfType(t) < settlement_counts[t]

\* C22: the types are processed in the order capital, city, town, village,
\* ruins, dungeon, temple, fortress, each finished before the next begins:
\* the type in progress only ever moves to its successor, every settlement
\* is appended behind all earlier ones with the type in progress and was
\* checked against all of them, and no earlier entry is changed; so in the
\* list every settlement of an earlier type precedes every settlement of a
\* later type.
C22_TypesInOrder ==
    /\ [](s_pc \in {"placing", "returned"} =>
            /\ \A i \in 1 .. Len(settlements) : \A j \in 1 .. Len(settlements) :
                  i < j => settlements[i].type <= settlements[j].type
            /\ \A i \in 1 .. Len(settlements) : settlements[i].type <= s_type)
    /\ [][(s_pc = "placing" =>
              /\ s_type' \in {s_type, s_type + 1}
              /\ settlements' # settlements =>
                    /\ Len(settlements') = Len(settlements) + 1
                    /\ SubSeq(settlements', 1, Len(settlements)) = settlements
                    /\ settlements'[Len(settlements')].type = s_type
                    /\ s_type' = s_type
                    /\ \A i \in 1 .. Len(settlements) :
                          Dist2(settlements'[Len(settlements')].position,
                                settlements[i].position)
                            >= Separation2(s_type, settlements[i].type))]_vars

\* a returned list that goes from one type to a later one, a third type
\* having been asked for after them
C22_Witness ==
    /\ s_pc = "returned"
    /\ Len(settlements) >= 2
    /\ settlements[1].type < settlements[2].type
    /\ \E t \in SettlementType :
          t > settlements[2].type /\ settlement_counts[t] > 0

\* one pass of the while loop has run
AttemptMade == s_pc = "placing" /\ (attempts' = attempts + 1 \/ settlements' # settlements)

\* C23 as stated: the k-th attempt since the last placement uses the
\* percentile max(0, 90 - 10 f), f the complete hundreds among the k - 1
\* failed attempts before it: attempts 1..100 the 90th, 101..200 the 80th
C23_RelaxedPerHundredFailures ==
    [][AttemptMade => used_percentile' = Max(0, 90 - 10 * (attempts \div 100))]_vars

\* C23: the k-th attempt since the last placement of the current type uses
\* the percentile max(0, 90 - 10 (k div 100)): attempts 1..99 the 90th,
\* 100..199 the 80th, and so on down to 0 from attempt 900; the counter
\* returns to 0 on every acceptance and starts at 0 for every type
C23_RelaxedPerHundredAttempts ==
    [][(AttemptMade =>
            /\ used_percentile' = Max(0, 90 - 10 * ((attempts + 1) \div 100))
            /\ used_percentile' >= 0
            /\ settlements' # settlements => attempts' = 0)
       /\ (s_pc \in {"start", "placing"} /\ s_type' # s_type => attempts' = 0)]_vars

\* the hundredth attempt in a row has failed, at the 80th percentile
C23_Witness ==
    /\ s_pc = "placing"
    /\ attempts = 100
    /\ used_percentile = 80

\* C24: accepting a settlement at p with radius r = min_settlement_distance
\* of its type multiplies the type-local habitability of exactly the in-grid
\* cells within distance r of p by 0.2 and leaves every other cell alone,
\* also when p is closer than r to the top or left edge; the base
\* habitability field is not modified
C24_SuppressesDiscAroundPosition ==
    [][(s_pc = "placing" /\ settlements' # settlements) =>
          LET p == settlements'[Len(settlements')].position
              r == min_settlement_distance[s_type]
          IN  /\ type_habitability' =
                    [c \in PlaceCells |->
                        IF Dist2(c, p) <= r * r
                        THEN (type_habitability[c] * 2) \div 10
                        ELSE type_habitability[c]]
              /\ habitability' = habitability]_vars

\* C29: every call of generate_settlements returns; on the way a
\* settlement never has more than max_attempts consecutive failed attempts,
\* and the loop of a type that can place nothing more is left
C29_GenerateSettlementsTerminates ==
    /\ [](attempts <= max_attempts)
    /\ <>(s_pc = "returned")
    /\ (s_pc = "placing" /\ s_type \in SettlementType)
          ~> (s_pc = "returned" \/ ~(s_type \in SettlementType))

\* the call has returned short of a requested count: the loop of that type
\* ended on its attempts
C29_Witness ==
    /\ s_pc = "returned"
    /\ \E t \in SettlementType : PlacedOfType(t) < settlement_counts[t]

(***************************************************************************)
(* WorldGenerator                                                          *)
(*                                                                         *)
(* generate() runs up to its call of generate_settlements in one step,     *)
(* the placement loop runs by the steps above on the generator's own rng,  *)
(* and a last step returns the World.  The world's grid is the placement   *)
(* grid.                                                                   *)
(***************************************************************************)
MaxCalls == 2
MaxOthers == 2
droplets == 2

\* terrain_generator.settings.seed = None
NoSeed == 0 - 1

\* np.random.RandomState(seed)
RandomStateSeed(seed) == (seed * 1103 + 12345) % 65536

\* the state after k scalar draws
RECURSIVE RngSkip(_, _)
RngSkip(s, k) == IF k = 0 THEN s ELSE RngNext(RngSkip(s, k - 1))

\* one call that draws a whole array advances the stream once; cell c of
\* the array, as an index below n, read off the state the call left
ArrayDraw(s, c, n) == ((s \div 16) + (1 + ((s \div 256) % 5)) * CellIndex(c)) % n

\* generate_heightmap: the stream restarts from settings.seed, the gradient
\* array is drawn, and the noise it gives is redistributed
NoiseSeq == <<-1000, -400, 400, 800, 1000, -200>>
AfterHeightmap(seed) == RngNext(RandomStateSeed(seed))
DrawnNoise(seed, c) == NoiseSeq[ArrayDraw(AfterHeightmap(seed), c, Len(NoiseSeq)) + 1]
GenerateHeightmap(seed) == [c \in PlaceCells |-> RedistributeCell(DrawnNoise(seed, c))]

\* apply_erosion on the world's grid: each droplet of hydraulic_erosion draws
\* its position from the terrain stream (x first, then y) and ends at the
\* bounds test before anything is eroded or deposited (DropletLeaves below),
\* and the loops of thermal_erosion are empty on a grid of two rows
HydraulicErosion(hm, s, n) == hm

\* generate_temperature_map and generate_precipitation_map: each builds its
\* own default_rng(seed) and adds one array of normal draws
TempSeq == <<100, 200, 300, 500, 600, 800>>
DrawnClimate(seed, c) ==
    Lit(TempSeq[ArrayDraw(RngNext(RngSeed(seed)), c, Len(TempSeq)) + 1])

\* the main stream at the start of generate()
ResetMainRng_Kept(seed, current) == current

ResetMainRng(seed, current) == RngSeed(seed)

\* np.ones((height, width), dtype=bool)
OnesMask == [c \in PlaceCells |-> TRUE]

\* the default counts of generate_settlements
DefaultCounts == <<1, 3, 5, 30, 10, 8, 6, 4>>

WorldSetups ==
    { [seed |-> 42, erosion |-> TRUE, models |-> DefaultModels,
       biomes |-> TestSettings],
      [seed |-> 7, erosion |-> FALSE, models |-> NoModels,
       biomes |-> DefaultSettings] }

\* WorldGenerator.__init__
WorldInit ==
    /\ \E setup \in WorldSetups :
          /\ w_seed = setup.seed
          /\ w_erosion = setup.erosion
          /\ w_biomes = setup.biomes
          /\ name_models = setup.models
    /\ terrain_seed \in {w_seed, NoSeed}
    /\ terrain_rng = IF terrain_seed = NoSeed THEN 0 ELSE RandomStateSeed(terrain_seed)
    /\ biome_rng = 0
    /\ rng = RngSeed(w_seed)
    /\ s_seed = w_seed
    /\ world = <<>>
    /\ worlds = <<>>
    /\ w_others = 0
    /\ w_pc = "ready"
    /\ s_heightmap = <<>> /\ settlement_counts = <<>> /\ rng_state = 0
    /\ settlements = <<>> /\ habitability = <<>> /\ type_habitability = <<>>
    /\ s_type = 0 /\ s_placed = 0 /\ attempts = 0 /\ used_percentile = 0 /\ s_pc = "idle"

\* generate() down to the call of generate_settlements
GenerateBegin ==
    /\ w_pc = "ready"
    /\ Len(worlds) < MaxCalls
    /\ rng' = ResetMainRng(w_seed, rng)
    /\ terrain_seed' = w_seed
    /\ biome_rng' = RngSeed(w_seed)
    /\ LET base == GenerateHeightmap(w_seed)
           hm == IF w_erosion
                 THEN HydraulicErosion(base, AfterHeightmap(w_seed), droplets)
                 ELSE base
       IN  /\ terrain_rng' = IF w_erosion
                             THEN RngSkip(AfterHeightmap(w_seed), 2 * droplets)
                             ELSE AfterHeightmap(w_seed)
           /\ world' = [heightmap |-> hm,
                        biome_map |-> [c \in PlaceCells |->
                            BiomeOf(Lit(hm[c]), DrawnClimate(w_seed, c),
                                    DrawnClimate(w_seed, c), w_biomes)],
                        discovery_mask |-> OnesMask,
                        settlements |-> <<>>]
           /\ s_heightmap' = hm
    /\ settlement_counts' = DefaultCounts
    /\ s_pc' = "start"
    /\ rng_state' = 0
    /\ settlements' = <<>>
    /\ habitability' = <<>>
    /\ type_habitability' = <<>>
    /\ s_type' = 0
    /\ s_placed' = 0
    /\ attempts' = 0
    /\ used_percentile' = 0
    /\ w_others' = 0
    /\ w_pc' = "settling"
    /\ UNCHANGED <<s_seed, name_models, w_seed, w_erosion, w_biomes, worlds>>
    /\ UNCHANGED NotPlacerNorWorld

\* generate() from the return of generate_settlements
GenerateEnd ==
    /\ w_pc = "settling"
    /\ s_pc = "returned"
    /\ worlds' = Append(worlds, [world EXCEPT !.settlements = settlements])
    /\ world' = <<>>
    /\ w_pc' = "ready"
    /\ UNCHANGED <<w_seed, w_erosion, w_biomes, terrain_seed, terrain_rng, biome_rng, w_others>>
    /\ UNCHANGED NotWorld

\* another consumer draws from generator.rng between two calls
UseRng ==
    /\ w_pc = "ready"
    /\ w_others < MaxOthers
    /\ rng' = RngNext(rng)
    /\ w_others' = w_others + 1
    /\ UNCHANGED <<s_seed, name_models, s_heightmap, settlement_counts, rng_state,
                   settlements, habitability, type_habitability, s_type, s_placed,
                   attempts, used_percentile, s_pc>>
    /\ UNCHANGED <<w_seed, w_erosion, w_biomes, terrain_seed, terrain_rng, biome_rng, world,
                   worlds, w_pc>>
    /\ UNCHANGED NotPlacerNorWorld

\* terrain_generator.generate_heightmap() called on its own between two
\* calls; without a seed RandomState starts anywhere
TerrainGenerateHeightmap ==
    /\ w_pc = "ready"
    /\ w_others < MaxOthers
    /\ IF terrain_seed = NoSeed
       THEN terrain_rng' \in {RngNext(s) : s \in {0, 1}}
       ELSE terrain_rng' = AfterHeightmap(terrain_seed)
    /\ w_others' = w_others + 1
    /\ UNCHANGED <<w_seed, w_erosion, w_biomes, terrain_seed, biome_rng, world, worlds, w_pc>>
    /\ UNCHANGED NotWorld

WorldNext ==
    \/ GenerateBegin
    \/ EnterGenerateSettlements
    \/ AttemptAccept
    \/ AttemptReject
    \/ NextType
    \/ ReturnSettlements
    \/ GenerateEnd
    \/ UseRng
    \/ TerrainGenerateHeightmap

InitWorld == WorldInit /\ BiomeIdle /\ TerrainIdle /\ ClimateIdle /\ SettingsIdle /\ TemplatesIdle /\ NamesIdle /\ GeneratorIdle /\ MessagesIdle /\ InputIdle

SpecWorld == InitWorld /\ [][WorldNext]_vars

\* position, type and name of every settlement, in order
Identity(list) ==
    [i \in 1 .. Len(list) |-> <<list[i].position, list[i].type, list[i].name>>]

\* C2: any two worlds that one generator with a fixed seed has returned,
\* whatever was done with the generator between the calls, have the same
\* heightmap, the same biome_map and the same ordered settlement list; and
\* a later call that is still placing settlements has so far built what the
\* first call built.
C2_GenerateReproducible ==
    /\ \A i \in 1 .. Len(worlds) : \A j \in 1 .. Len(worlds) :
          /\ worlds[i].heightmap = worlds[j].heightmap
          /\ worlds[i].biome_map = worlds[j].biome_map
          /\ Identity(worlds[i].settlements) = Identity(worlds[j].settlements)
    /\ (w_pc = "settling" /\ worlds # <<>>) =>
          /\ world.heightmap = worlds[1].heightmap
          /\ world.biome_map = worlds[1].biome_map
          /\ Len(settlements) <= Len(worlds[1].settlements)
          /\ Identity(settlements) =
                SubSeq(Identity(worlds[1].settlements), 1, Len(settlements))

\* two worlds with settlements were returned, and the second call found the
\* terrain stream where the first had left it
C2_Witness ==
    /\ Len(worlds) = MaxCalls
    /\ worlds[1].settlements # <<>>
    /\ terrain_rng # RandomStateSeed(w_seed)

\* C10: every cell of the discovery mask of every returned World is false.
C10_DiscoveryMaskAllFalse ==
    \A i \in 1 .. Len(worlds) : \A c \in PlaceCells :
        worlds[i].discovery_mask[c] = FALSE

\* C27: every settlement of a generated World sits on land: its elevation
\* is at or above the placer's water threshold, and the World's biome_map
\* does not label its cell OCEAN or SHALLOW_OCEAN, for the default biome
\* settings and for a configured ocean_level
C27_NoSettlementOnWater ==
    \A i \in 1 .. Len(worlds) : \A k \in 1 .. Len(worlds[i].settlements) :
        LET pos == worlds[i].settlements[k].position
        IN  /\ worlds[i].heightmap[pos] >= 300
            /\ worlds[i].biome_map[pos] \notin {OCEAN, SHALLOW_OCEAN}

(***************************************************************************)
(* TerrainSettings and ErosionSettings                                     *)
(*                                                                         *)
(* A Python value is its type and a number: an int is itself, a float is   *)
(* in thousandths, True is 1, the others are 0.  A settings object is a    *)
(* function from field names to values; the fields of its ErosionSettings  *)
(* are the keys "erosion.<field>".                                         *)
(***************************************************************************)
PyInt(n) == [type |-> "int", val |-> n]
PyFloat(n) == [type |-> "float", val |-> n]
PyBool(b) == [type |-> "bool", val |-> IF b THEN 1 ELSE 0]
PyStr == [type |-> "str", val |-> 0]
PyNone == [type |-> "NoneType", val |-> 0]
PyErosion == [type |-> "ErosionSettings", val |-> 0]
PyDict == [type |-> "dict", val |-> 0]

\* isinstance(v, int): bool is a subclass of int
IsInstanceInt(v) == v.type \in {"int", "bool"}
\* isinstance(v, float)
IsInstanceFloat(v) == v.type = "float"

ErosionFields ==
    <<"droplets", "inertia", "capacity", "deposition", "erosion", "evaporation",
      "min_slope">>
ErosionKey(f) ==
    CASE f = "droplets" -> "erosion.droplets"
      [] f = "inertia" -> "erosion.inertia"
      [] f = "capacity" -> "erosion.capacity"
      [] f = "deposition" -> "erosion.deposition"
      [] f = "erosion" -> "erosion.erosion"
      [] f = "evaporation" -> "erosion.evaporation"
      [] f = "min_slope" -> "erosion.min_slope"
ErosionFieldSet == {ErosionFields[i] : i \in 1 .. Len(ErosionFields)}

\* expected_types of TerrainSettings.__post_init__, in its order
TerrainFields ==
    <<"width", "height", "octaves", "persistence", "lacunarity", "scale",
      "height_power", "water_level", "land_scale", "seed", "erosion">>
TerrainFieldSet == {TerrainFields[i] : i \in 1 .. Len(TerrainFields)}

\* isinstance(value, expected_types[field_name])
TerrainFieldAccepts(f, v) ==
    CASE f \in {"width", "height", "octaves"} -> IsInstanceInt(v)
      [] f = "seed" -> IsInstanceInt(v) \/ v.type = "NoneType"
      [] f = "erosion" -> v.type \in {"ErosionSettings", "NoneType"}
      [] OTHER -> IsInstanceFloat(v)

\* ErosionSettings.__post_init__ on one field
ErosionFieldAccepts(f, v) ==
    IF f = "droplets" THEN IsInstanceInt(v) ELSE IsInstanceFloat(v)

Returned(obj) == [raised |-> "", field |-> "", value |-> obj]
Raised(exc, f) == [raised |-> exc, field |-> f, value |-> <<>>]

\* ErosionSettings(**kwargs): the first field, in the order of the checks,
\* that fails its isinstance test raises TypeError
RECURSIVE ErosionPostInit(_, _)
ErosionPostInit(kwargs, i) ==
    IF i > Len(ErosionFields) THEN Returned(kwargs)
    ELSE IF ~ErosionFieldAccepts(ErosionFields[i], kwargs[ErosionFields[i]])
         THEN Raised("TypeError", ErosionFields[i])
         ELSE ErosionPostInit(kwargs, i + 1)
NewErosionSettings(kwargs) == ErosionPostInit(kwargs, 1)

\* TerrainSettings(**kwargs), kwargs holding the erosion object's fields
\* under "erosion.<field>" when kwargs["erosion"] is an ErosionSettings
RECURSIVE TerrainPostInit(_, _)
TerrainPostInit(kwargs, i) ==
    IF i > Len(TerrainFields) THEN Returned(kwargs)
    ELSE IF ~TerrainFieldAccepts(TerrainFields[i], kwargs[TerrainFields[i]])
         THEN Raised("TypeError", TerrainFields[i])
         ELSE TerrainPostInit(kwargs, i + 1)
NewTerrainSettings(kwargs) == TerrainPostInit(kwargs, 1)

\* ErosionSettings.from_config: config[key] for the seven keys in order,
\* then the constructor
RECURSIVE FirstMissing(_, _)
FirstMissing(config, i) ==
    IF i > Len(ErosionFields) THEN ""
    ELSE IF ErosionFields[i] \notin DOMAIN config THEN ErosionFields[i]
    ELSE FirstMissing(config, i + 1)
ErosionFromConfig(config) ==
    IF FirstMissing(config, 1) # "" THEN Raised("KeyError", FirstMissing(config, 1))
    ELSE NewErosionSettings(config)

\* the defaults of TerrainSettings.from_config
FromConfigDefaults ==
    [f \in TerrainFieldSet \ {"erosion"} |->
        CASE f = "width" -> PyInt(256)
          [] f = "height" -> PyInt(256)
          [] f = "octaves" -> PyInt(6)
          [] f = "persistence" -> PyFloat(500)
          [] f = "lacunarity" -> PyFloat(2000)
          [] f = "scale" -> PyFloat(100000)
          [] f = "height_power" -> PyFloat(1200)
          [] f = "water_level" -> PyFloat(400)
          [] f = "land_scale" -> PyFloat(300)
          [] f = "seed" -> PyNone]

\* a settings object's kwargs from scalar fields and an erosion object
WithErosion(top, erosion_obj) ==
    [k \in DOMAIN top \cup {"erosion"} \cup {ErosionKey(f) : f \in DOMAIN erosion_obj} |->
        IF k = "erosion" THEN PyErosion
        ELSE IF k \in DOMAIN top THEN top[k]
        ELSE erosion_obj[CHOOSE f \in DOMAIN erosion_obj : ErosionKey(f) = k]]
WithoutErosion(top) ==
    [k \in DOMAIN top \cup {"erosion"} |-> IF k = "erosion" THEN PyNone ELSE top[k]]

\* `if erosion_config:` an absent key, None and an empty mapping are falsy
Truthy(erosion_config) ==
    erosion_config.kind = "dict" /\ DOMAIN erosion_config.map # {}

\* TerrainSettings.from_config: config.top holds the scalar keys present,
\* config.erosion what config.get('erosion') finds
TerrainFromConfig(config) ==
    LET top == [f \in TerrainFieldSet \ {"erosion"} |->
                   IF f \in DOMAIN config.top THEN config.top[f]
                   ELSE FromConfigDefaults[f]]
        sub == IF Truthy(config.erosion)
               THEN ErosionFromConfig(config.erosion.map)
               ELSE Returned(<<>>)
    IN  IF sub.raised # "" THEN sub
        ELSE IF Truthy(config.erosion)
             THEN NewTerrainSettings(WithErosion(top, sub.value))
             ELSE NewTerrainSettings(WithoutErosion(top))

\* the values a caller may pass for a field
PyValues == {PyInt(5), PyFloat(500), PyStr, PyBool(TRUE), PyNone}

\* the erosion_settings fixture of the tests
ValidErosion ==
    [droplets |-> PyInt(1000), inertia |-> PyFloat(50), capacity |-> PyFloat(4000),
     deposition |-> PyFloat(100), erosion |-> PyFloat(300),
     evaporation |-> PyFloat(20), min_slope |-> PyFloat(10)]

\* the scalar fields of the terrain_settings fixture of the tests
ValidTop ==
    [width |-> PyInt(128), height |-> PyInt(128), octaves |-> PyInt(6),
     persistence |-> PyFloat(500), lacunarity |-> PyFloat(2000),
     scale |-> PyFloat(50000), height_power |-> PyFloat(1200),
     water_level |-> PyFloat(400), land_scale |-> PyFloat(300), seed |-> PyInt(42)]

\* keyword arguments that differ from a fixture in at most two fields
Perturbed(kwargs) ==
    {[kwargs EXCEPT ![f1] = v1, ![f2] = v2] :
        <<f1, v1, f2, v2>> \in
            {t \in (DOMAIN kwargs) \X PyValues \X (DOMAIN kwargs) \X PyValues :
                t[1] # t[3]}}
    \cup {[kwargs EXCEPT ![f] = v] : <<f, v>> \in (DOMAIN kwargs) \X PyValues}
    \cup {kwargs}

WithErosionValue(top, v) ==
    [k \in DOMAIN top \cup {"erosion"} |-> IF k = "erosion" THEN v ELSE top[k]]

\* TerrainSettings(**kwargs) with erosion an ErosionSettings, None, or a
\* value of another type
TerrainKwargs ==
    {WithErosion(top, ValidErosion) : top \in Perturbed(ValidTop)}
    \cup {WithErosionValue(top, v) : top \in Perturbed(ValidTop),
                                      v \in {PyNone, PyStr, PyDict}}

\* the 'erosion' entry of a config: absent, None, or a mapping holding any
\* subset of the seven keys, at most one of them with another value
ErosionConfigs ==
    {[kind |-> "absent", map |-> <<>>], [kind |-> "None", map |-> <<>>]}
    \cup {[kind |-> "dict", map |-> m] :
            m \in UNION {{[f \in K |-> ValidErosion[f]]}
                         \cup {[f \in K |-> IF f = g THEN v ELSE ValidErosion[f]] :
                                 <<g, v>> \in K \X PyValues} :
                         K \in SUBSET ErosionFieldSet}}

\* the scalar keys of a config: none, or one key with any value
TopConfigs ==
    {<<>>} \cup {[k \in {f} |-> v] : <<f, v>> \in {"width", "scale", "seed"} \X PyValues}

SettingsInit ==
    /\ x_call = <<>>
    /\ x_result = <<>>
    /\ x_pc = "ready"

\* ErosionSettings(droplets=..., ..., min_slope=...)
ConstructErosionSettings ==
    /\ x_pc = "ready"
    /\ \E kwargs \in Perturbed(ValidErosion) :
          /\ x_call' = [op |-> "ErosionSettings", arg |-> kwargs]
          /\ x_result' = NewErosionSettings(kwargs)
    /\ x_pc' = "done"
    /\ UNCHANGED NotSettings

\* TerrainSettings(width=..., ..., erosion=...)
ConstructTerrainSettings ==
    /\ x_pc = "ready"
    /\ \E kwargs \in TerrainKwargs :
          /\ x_call' = [op |-> "TerrainSettings", arg |-> kwargs]
          /\ x_result' = NewTerrainSettings(kwargs)
    /\ x_pc' = "done"
    /\ UNCHANGED NotSettings

\* TerrainSettings.from_config(config)
CallTerrainFromConfig ==
    /\ x_pc = "ready"
    /\ \E top \in TopConfigs, erosion_config \in ErosionConfigs :
          /\ x_call' = [op |-> "from_config",
                        arg |-> [top |-> top, erosion |-> erosion_config]]
          /\ x_result' = TerrainFromConfig([top |-> top, erosion |-> erosion_config])
    /\ x_pc' = "done"
    /\ UNCHANGED NotSettings

SettingsNext ==
    \/ ConstructErosionSettings
    \/ ConstructTerrainSettings
    \/ CallTerrainFromConfig

InitSettings == SettingsInit /\ BiomeIdle /\ TerrainIdle /\ ClimateIdle /\ PlacerIdle /\ WorldIdle /\ TemplatesIdle /\ NamesIdle /\ GeneratorIdle /\ MessagesIdle /\ InputIdle

SpecSettings == InitSettings /\ [][SettingsNext]_vars

\* value v has the type that class cls declares for its field f
HasDeclaredType(cls, f, v) ==
    IF cls = "ErosionSettings"
    THEN IF f = "droplets" THEN v.type = "int" ELSE v.type = "float"
    ELSE CASE f \in {"width", "height", "octaves", "erosion.droplets"} -> v.type = "int"
           [] f = "seed" -> v.type \in {"int", "NoneType"}
           [] f = "erosion" -> v.type \in {"ErosionSettings", "NoneType"}
           [] OTHER -> v.type = "float"

IllTyped(cls, kwargs) == {f \in DOMAIN kwargs : ~HasDeclaredType(cls, f, kwargs[f])}

\* C13: a constructor given a value that is not of the field's declared
\* primitive type (a string or a boolean for an int field, an int for a float
\* field) raises TypeError naming such a field and produces no settings object
C13_IllTypedFieldRaises ==
    (/\ x_pc = "done"
     /\ x_call.op \in {"ErosionSettings", "TerrainSettings"}
     /\ IllTyped(x_call.op, x_call.arg) # {})
    => (/\ x_result.raised = "TypeError"
        /\ x_result.field \in IllTyped(x_call.op, x_call.arg))

\* C14: from_config given an 'erosion' mapping that lacks at least one of the
\* seven erosion keys, the empty mapping included, raises KeyError
C14_IncompleteErosionRaises ==
    (/\ x_pc = "done"
     /\ x_call.op = "from_config"
     /\ x_call.arg.erosion.kind = "dict"
     /\ ErosionFieldSet \ DOMAIN x_call.arg.erosion.map # {})
    => x_result.raised = "KeyError"

(***************************************************************************)
(* TerrainTemplateManager                                                  *)
(*                                                                         *)
(* A name is a sequence of characters; a file name ends with its           *)
(* extension as one element.  A template file holds a YAML document whose  *)
(* scalars are nodes: a tag and the number the text stands for.            *)
(***************************************************************************)
MaxOps == 3

Put(f, k, v) == [x \in DOMAIN f \cup {k} |-> IF x = k THEN v ELSE f[x]]

\* str.lower() on the characters used
Lower(c) ==
    CASE c = "T" -> "t"
      [] c = "C" -> "c"
      [] OTHER -> c

\* f"{name.lower().replace(' ', '_')}.yaml"
FileName(name) ==
    [i \in 1 .. Len(name) |-> IF Lower(name[i]) = " " THEN "_" ELSE Lower(name[i])]
    \o <<".yaml">>

\* yaml.dump of a value of the settings dictionary
YamlDump(v) ==
    CASE v.type = "int" -> [tag |-> "!!int", text |-> v.val]
      [] v.type = "float" -> [tag |-> "!!float", text |-> v.val]
      [] v.type = "bool" -> [tag |-> "!!bool", text |-> v.val]
      [] v.type = "str" -> [tag |-> "!!str", text |-> v.val]
      [] v.type = "NoneType" -> [tag |-> "!!null", text |-> 0]
      [] v.type \in {"ErosionSettings", "dict"} -> [tag |-> "!!map", text |-> 0]

\* yaml.safe_load of a node
YamlLoad(n) ==
    CASE n.tag = "!!int" -> PyInt(n.text)
      [] n.tag = "!!float" -> PyFloat(n.text)
      [] n.tag = "!!bool" -> PyBool(n.text = 1)
      [] n.tag = "!!str" -> PyStr
      [] n.tag = "!!null" -> PyNone
      [] n.tag = "!!map" -> PyDict

ErosionSubKeys == {ErosionKey(f) : f \in ErosionFieldSet}

\* the keys save_template writes under 'settings'
SavedKeys ==
    {"width", "height", "octaves", "persistence", "lacunarity", "scale",
     "height_power", "water_level", "land_scale", "erosion"}

\* template_dict of save_template, as yaml.dump writes it
TemplateDict(name, description, settings) ==
    [kind |-> "mapping", name |-> name, description |-> description,
     settings |->
        [k \in SavedKeys \cup
               (IF settings["erosion"].type = "ErosionSettings"
                THEN ErosionSubKeys ELSE {}) |-> YamlDump(settings[k])]]

\* the defaults of the TerrainSettings dataclass
DataclassDefaults ==
    [height_power |-> PyFloat(1400), water_level |-> PyFloat(350),
     land_scale |-> PyFloat(400), seed |-> PyNone]

NoTemplate == [name |-> <<>>, description |-> "", settings |-> <<>>]
Failed == [raised |-> TRUE, template |-> NoTemplate]

\* the body of the try block of load_templates on one file
LoadTemplate(content) ==
    IF content.kind # "file" THEN Failed                \* open() raises
    ELSE IF content.doc.kind \in {"scan_error", "empty", "no_settings"} THEN Failed
    ELSE
    LET loaded == [k \in DOMAIN content.doc.settings |-> YamlLoad(content.doc.settings[k])]
        top == DOMAIN loaded \ ErosionSubKeys
        given == {f \in ErosionFieldSet : ErosionKey(f) \in DOMAIN loaded}
        erosion_dict == IF "erosion" \in top THEN loaded["erosion"] ELSE PyNone
        has_erosion == erosion_dict.type = "dict" /\ given # {}
        erosion_settings ==
            IF has_erosion /\ given = ErosionFieldSet
            THEN NewErosionSettings([f \in ErosionFieldSet |-> loaded[ErosionKey(f)]])
            ELSE Raised("TypeError", "")
        scalars ==
            [f \in (top \cup DOMAIN DataclassDefaults) \ {"erosion"} |->
                IF f \in top THEN loaded[f] ELSE DataclassDefaults[f]]
        terrain_settings ==
            IF has_erosion
            THEN NewTerrainSettings(WithErosion(scalars, erosion_settings.value))
            ELSE NewTerrainSettings(WithoutErosion(scalars))
    IN  IF erosion_dict.type \notin {"dict", "NoneType"} THEN Failed
        ELSE IF has_erosion /\ erosion_settings.raised # "" THEN Failed
        ELSE IF DOMAIN scalars \cup {"erosion"} # TerrainFieldSet THEN Failed
        ELSE IF terrain_settings.raised # "" THEN Failed
        ELSE IF content.doc.kind = "no_name" THEN Failed
        ELSE [raised |-> FALSE,
              template |-> [name |-> content.doc.name,
                            description |-> content.doc.description,
                            settings |-> terrain_settings.value]]

\* a loop with the try block around the whole of it: the first failure ends
\* the loading
RECURSIVE LoadTemplates_NoIsolation(_, _, _)
LoadTemplates_NoIsolation(files, order, acc) ==
    IF order = <<>> THEN [raised |-> FALSE, templates |-> acc]
    ELSE IF LoadTemplate(files[Head(order)]).raised
         THEN [raised |-> FALSE, templates |-> acc]
         ELSE LoadTemplates_NoIsolation(files, Tail(order),
                 Put(acc, LoadTemplate(files[Head(order)]).template.name,
                          LoadTemplate(files[Head(order)]).template))

\* load_templates over the files in the order the glob gives them
RECURSIVE LoadTemplates(_, _, _)
LoadTemplates(files, order, acc) ==
    IF order = <<>> THEN [raised |-> FALSE, templates |-> acc]
    ELSE LET r == LoadTemplate(files[Head(order)])
         IN  LoadTemplates(files, Tail(order),
                 IF r.raised THEN acc ELSE Put(acc, r.template.name, r.template))

\* templates_dir.glob("*.yaml")
YamlFiles(files) == {f \in DOMAIN files : f[Len(f)] = ".yaml"}
GlobOrders(files) ==
    {o \in [1 .. Cardinality(YamlFiles(files)) -> YamlFiles(files)] :
        \A i, j \in DOMAIN o : i # j => o[i] # o[j]}

TemplateNames == {<<"T", " ", "t">>, <<"t", "_", "t">>, <<"C">>}
SaveSettings ==
    {WithErosion([ValidTop EXCEPT !["seed"] = sd], ValidErosion) : sd \in {PyInt(42), PyNone}}
    \cup {WithoutErosion([ValidTop EXCEPT !["seed"] = sd]) : sd \in {PyInt(42), PyNone}}

\* what another program may leave in the directory
Document(kind) ==
    [kind |-> "file",
     doc |-> [kind |-> kind, name |-> <<>>, description |-> "", settings |-> <<>>]]
HandWritten(name, settings) ==
    [kind |-> "file",
     doc |-> [TemplateDict(name, "by hand", settings) EXCEPT
                 !.settings = Put(@, "seed", YamlDump(settings["seed"]))]]
\* the save_template calls: one name with every kind of settings, the other
\* names with the fixture
SaveCalls ==
    ({<<"C">>} \X SaveSettings)
    \cup ((TemplateNames \ {<<"C">>}) \X {WithErosion(ValidTop, ValidErosion)})

OtherFiles ==
    {<<<<"c", ".yaml">>, [kind |-> "directory", doc |-> Document("empty").doc]>>,
     <<<<"x", ".yaml">>, Document("scan_error")>>,
     <<<<"n", ".txt">>, Document("no_settings")>>,
     <<<<"x", ".yaml">>,
       [HandWritten(<<"C">>, WithoutErosion(ValidTop)) EXCEPT !.doc.kind = "no_name"]>>,
     <<<<"c", ".yaml">>,
       HandWritten(<<"C">>, WithoutErosion([ValidTop EXCEPT !["width"] = PyStr]))>>,
     <<<<"x", ".yaml">>, HandWritten(<<"T", " ", "t">>, WithErosion(ValidTop, ValidErosion))>>}

TemplatesInit ==
    /\ m_files = <<>>
    /\ templates = <<>>
    /\ fresh_templates = <<>>
    /\ m_load = <<>>
    /\ m_last = <<>>
    /\ m_pc = "ready"
    /\ m_ops = 0
    /\ m_saves_only = TRUE

\* save_template(name, description, settings) on the saving manager; a name
\* is saved first with one description and then with another
SaveTemplate ==
    /\ m_ops < MaxOps
    /\ \E call \in SaveCalls :
        \E name \in {call[1]}, settings \in {call[2]} :
        \E description \in {IF name \in DOMAIN templates THEN "Updated description"
                            ELSE "Initial description"} :
        IF FileName(name) \in DOMAIN m_files /\ m_files[FileName(name)].kind # "file"
        THEN /\ m_last' = [name |-> name, description |-> description,
                           settings |-> settings, ok |-> FALSE]
             /\ m_saves_only' = FALSE
             /\ UNCHANGED <<m_files, templates>>
        ELSE /\ m_files' = Put(m_files, FileName(name),
                               [kind |-> "file",
                                doc |-> TemplateDict(name, description, settings)])
             /\ templates' = Put(templates, name,
                                 [name |-> name, description |-> description,
                                  settings |-> settings])
             /\ m_last' = [name |-> name, description |-> description,
                           settings |-> settings, ok |-> TRUE]
             /\ UNCHANGED m_saves_only
    /\ m_pc' = "saved"
    /\ m_ops' = m_ops + 1
    /\ UNCHANGED <<fresh_templates, m_load>>
    /\ UNCHANGED NotTemplates

\* TerrainTemplateManager(templates_dir) on the same directory
NewManager ==
    /\ m_pc \in {"saved", "written"}
    /\ \E order \in GlobOrders(m_files) :
        \E r \in {LoadTemplates(m_files, order, <<>>)} :
            /\ fresh_templates' = r.templates
            /\ m_load' = [glob |-> order, raised |-> r.raised]
    /\ m_pc' = IF m_pc = "saved" THEN "reloaded" ELSE "loaded"
    /\ UNCHANGED <<m_files, templates, m_last, m_ops, m_saves_only>>
    /\ UNCHANGED NotTemplates

\* another program writes a file, or makes a directory, in templates_dir
WriteFile ==
    /\ m_ops < MaxOps
    /\ \E file \in OtherFiles : m_files' = Put(m_files, file[1], file[2])
    /\ m_pc' = "written"
    /\ m_ops' = m_ops + 1
    /\ m_saves_only' = FALSE
    /\ UNCHANGED <<templates, fresh_templates, m_load, m_last>>
    /\ UNCHANGED NotTemplates

TemplatesNext ==
    \/ SaveTemplate
    \/ NewManager
    \/ WriteFile

InitTemplates == TemplatesInit /\ BiomeIdle /\ TerrainIdle /\ ClimateIdle /\ PlacerIdle /\ WorldIdle /\ SettingsIdle /\ NamesIdle /\ GeneratorIdle /\ MessagesIdle /\ InputIdle

SpecTemplates == InitTemplates /\ [][TemplatesNext]_vars

\* C11: a template saved and then loaded by a fresh manager on the same
\* directory has settings equal to the saved ones in every field, seed and
\* erosion sub-fields included
C11_TemplateRoundTrip ==
    (m_pc = "reloaded" /\ m_last.ok)
    => (/\ m_last.name \in DOMAIN fresh_templates
        /\ fresh_templates[m_last.name].settings = m_last.settings)

\* the files of the directory that load as a template, and what they hold
WellFormed == {f \in YamlFiles(m_files) : ~LoadTemplate(m_files[f]).raised}
TemplateOf(f) == LoadTemplate(m_files[f]).template

\* the last well-formed file, in the order of the glob, that carries name n
LastNamed(n) ==
    m_load.glob[CHOOSE i \in DOMAIN m_load.glob :
        /\ m_load.glob[i] \in WellFormed
        /\ TemplateOf(m_load.glob[i]).name = n
        /\ \A j \in DOMAIN m_load.glob :
              (j > i /\ m_load.glob[j] \in WellFormed)
              => TemplateOf(m_load.glob[j]).name # n]

\* C12 as stated: the constructor does not raise, the template of every
\* well-formed file is in templates, and every entry comes from a
\* well-formed file
C12_EveryWellFormedFilePresent ==
    (m_pc \in {"loaded", "reloaded"})
    => (/\ ~m_load.raised
        /\ \A f \in WellFormed :
              /\ TemplateOf(f).name \in DOMAIN fresh_templates
              /\ fresh_templates[TemplateOf(f).name] = TemplateOf(f)
        /\ \A n \in DOMAIN fresh_templates :
              \E f \in WellFormed : fresh_templates[n] = TemplateOf(f))

\* C12, amended: the constructor does not raise, the name of every
\* well-formed file's template is a key of templates, the entry under a name
\* is the template of the last well-formed file of the glob that carries the
\* name, and every entry comes from a well-formed file
C12_LoadIsolatesFailures ==
    (m_pc \in {"loaded", "reloaded"})
    => (/\ ~m_load.raised
        /\ \A f \in WellFormed :
              /\ TemplateOf(f).name \in DOMAIN fresh_templates
              /\ fresh_templates[TemplateOf(f).name]
                    = TemplateOf(LastNamed(TemplateOf(f).name))
        /\ \A n \in DOMAIN fresh_templates :
              \E f \in WellFormed : fresh_templates[n] = TemplateOf(f))

\* a manager was constructed over a malformed file followed by a well-formed
\* one, and two well-formed files carry the same name
C12_Witness ==
    /\ m_pc \in {"loaded", "reloaded"}
    /\ \E i, j \in DOMAIN m_load.glob :
          /\ i < j
          /\ m_load.glob[i] \notin WellFormed
          /\ m_load.glob[j] \in WellFormed
    /\ \E f, g \in WellFormed : f # g /\ TemplateOf(f).name = TemplateOf(g).name
    /\ DOMAIN fresh_templates # {}

\* C28: after successful save_template calls only, a fresh manager on the
\* same directory holds exactly the names of the saving manager's
\* templates, each with its last saved description
C28_SavedTemplatesSurviveReload ==
    (m_pc = "reloaded" /\ m_saves_only)
    => (/\ DOMAIN fresh_templates = DOMAIN templates
        /\ \A n \in DOMAIN templates :
              fresh_templates[n].description = templates[n].description)

(***************************************************************************)
(* Settlement.generate_name over the states of the name models             *)
(***************************************************************************)
NumNameSeeds == 8

\* the model of the corpus {bab}
SettlementModel ==
    (<<" ", " ">> :> << <<"b", 1>> >>) @@
    (<<" ", "b">> :> << <<"a", 1>> >>) @@
    (<<"b", "a">> :> << <<"b", 1>> >>) @@
    (<<"a", "b">> :> << <<" ", 1>> >>)

\* the model of the corpus {a}: after "a" and the end marker the context
\* <<"a", " ">> has no entry
ShortModel ==
    (<<" ", " ">> :> << <<"a", 1>> >>) @@
    (<<" ", "a">> :> << <<" ", 1>> >>)

\* markov_models: no data directory; default.txt only; empire_settlement.txt
\* only; both; a default of one short name; an empty default.txt; an empty
\* empire_settlement.txt beside a default
NameModelStates ==
    {NoModels,
     DefaultModels,
     [empire_settlement |-> SettlementModel],
     [empire_settlement |-> SettlementModel, default |-> TinyModel],
     [default |-> ShortModel],
     [default |-> <<>>],
     [empire_settlement |-> <<>>, default |-> TinyModel]}

NamesInit ==
    /\ n_type \in SettlementType
    /\ n_models \in NameModelStates
    /\ \E seed \in 1 .. NumNameSeeds : n_rng = RngSeed(seed)
    /\ n_result = <<>>
    /\ n_pc = "unnamed"

\* settlement.generate_name(name_generator): an exception that the except
\* clause does not name leaves the call, and the name stays ""; what
\* NameGenerator.generate_name itself did is kept beside the outcome
SettlementGenerateName ==
    /\ n_pc = "unnamed"
    /\ \E generated \in {GenerateName(n_models, name_type_mapping[n_type], n_rng)} :
          /\ n_result' = [raised |-> IF generated.raised \in Caught THEN ""
                                     ELSE generated.raised,
                          name |-> SettlementName(n_type, generated),
                          generated |-> [raised |-> generated.raised,
                                         name |-> generated.name]]
          /\ n_rng' = generated.rng
    /\ n_pc' = "named"
    /\ UNCHANGED <<n_type, n_models>>
    /\ UNCHANGED NotNames

NamesNext == SettlementGenerateName

InitNames == NamesInit /\ BiomeIdle /\ TerrainIdle /\ ClimateIdle /\ PlacerIdle /\ WorldIdle /\ SettingsIdle /\ TemplatesIdle /\ GeneratorIdle /\ MessagesIdle /\ InputIdle

SpecNames == InitNames /\ [][NamesNext]_vars

\* C16: Settlement.generate_name returns normally and leaves a non-empty
\* name in every state of the name models; with the requested key missing
\* and a default model present the name comes from the default model; with
\* no usable model, or a context without an entry, the name is the fallback
\* of the settlement's type
C16_NameFailureNeverEscapes ==
    n_pc = "named" =>
        /\ n_result.raised = ""
        /\ n_result.name # <<>>
        /\ (n_models \in {NoModels, [default |-> <<>>], [default |-> ShortModel]})
              => n_result.name = fallback_names[n_type]
        /\ (n_models = [empire_settlement |-> SettlementModel] /\ n_type > VILLAGE)
              => n_result.name = fallback_names[n_type]
        /\ (n_models = [empire_settlement |-> SettlementModel] /\ n_type <= VILLAGE)
              => n_result.name = <<"B", "a", "b">>
        /\ (/\ ModelKey(name_type_mapping[n_type]) \notin DOMAIN n_models
            /\ "default" \in DOMAIN n_models
            /\ n_models["default"] = TinyModel)
              => /\ n_result.name[1] = "A"
                 /\ Len(n_result.name) \in min_length .. max_length

\* the default model is used for a missing key, generation runs into a
\* context without an entry, and the settlement is left with its fallback
C16_Witness ==
    /\ n_pc = "named"
    /\ n_models = [default |-> ShortModel]
    /\ n_rng # RngSeed(1)
    /\ n_result.name = fallback_names[n_type]

\* C25: with a usable model NameGenerator.generate_name returns a name of
\* min_length to max_length characters: it stops at the first space drawn
\* once the stripped length is at least min_length or when the length
\* reaches max_length, and a space drawn while the length is below
\* min_length neither ends generation nor makes the call fail
C25_NameStopRule ==
    (/\ n_pc = "named"
     /\ \/ HasModel(n_models, ModelKey(name_type_mapping[n_type]))
        \/ HasModel(n_models, "default"))
    => /\ n_result.generated.raised = ""
       /\ Len(n_result.generated.name) >= min_length
       /\ Len(n_result.generated.name) <= max_length

(***************************************************************************)
(* TerrainGenerator on grids of any shape                                  *)
(*                                                                         *)
(* A heightmap has shape <<rows, columns>>; positions of a droplet are in  *)
(* thousandths of a cell.                                                  *)
(***************************************************************************)
Cells(shape) == (0 .. shape[1] - 1) \X (0 .. shape[2] - 1)        \* <<row, column>>

\* int() of a float: towards zero
Trunc(v) == IF v >= 0 THEN v \div One ELSE 0 - ((0 - v) \div One)

Clamp(v, hi) == Max(0, Min(v, hi))

\* _sample_height(heightmap, x, y): x is clamped by the columns and y by the
\* rows, the weights are taken from the clamped corner; the bilinear sum is
\* taken along x first, then along y
SampleHeight(hm, shape, x, y) ==
    LET x0 == Clamp(Trunc(x), shape[2] - 1)
        x1 == Clamp(Trunc(x) + 1, shape[2] - 1)
        y0 == Clamp(Trunc(y), shape[1] - 1)
        y1 == Clamp(Trunc(y) + 1, shape[1] - 1)
        wx == x - x0 * One
        wy == y - y0 * One
        upper == (hm[<<y0, x0>>] * (One - wx) + hm[<<y0, x1>>] * wx) \div One
        lower == (hm[<<y1, x0>>] * (One - wx) + hm[<<y1, x1>>] * wx) \div One
    IN  (upper * (One - wy) + lower * wy) \div One

\* rng.random() * span, read off the state the draw left
RandomTimes(s, span) == (((s \div 16) % 100) * span) \div 100

\* thermal_erosion, one pass.  `width, height = heightmap.shape` makes width
\* the rows and height the columns; y runs over range(1, height - 1), x over
\* range(1, width - 1), and the cells read and written are [y, x] and
\* [y + dy, x + dx].  An index past the end of an axis raises IndexError.
Donors(shape) == (1 .. shape[2] - 2) \X (1 .. shape[1] - 2)       \* <<y, x>>
Around(c) ==
    { <<c[1], c[2] - 1>>, <<c[1], c[2] + 1>>, <<c[1] - 1, c[2]>>, <<c[1] + 1, c[2]>> }
PassRaises(shape) ==
    \E c \in Donors(shape) : c \notin Cells(shape) \/ ~(Around(c) \subseteq Cells(shape))
Slide(hm, src, dst, slope) ==
    IF hm[src] - hm[dst] > slope THEN (hm[src] - hm[dst]) \div 4 ELSE 0
ErosionPass(hm, shape, slope) ==
    [c \in Cells(shape) |->
        LET given == IF c \in Donors(shape)
                     THEN [d \in Around(c) |-> Slide(hm, c, d, slope)]
                     ELSE [d \in {} |-> 0]
            taken == [d \in Around(c) \cap Donors(shape) |-> Slide(hm, d, c, slope)]
        IN  hm[c] - SumOver(given, DOMAIN given) + SumOver(taken, DOMAIN taken)]

\* generate_heightmap on the stream it starts from: the noise of one array of
\* draws, redistributed
HeightmapFrom(s, shape) ==
    [c \in Cells(shape) |->
        RedistributeCell(
            NoiseSeq[(((RngNext(s) \div 16)
                       + (1 + ((RngNext(s) \div 256) % 5)) * (c[1] * shape[2] + c[2]))
                      % Len(NoiseSeq)) + 1])]

\* a generate_heightmap that goes on with the stream as it finds it
StartOfStream_Continued(seed, current) == current

\* self.rng = np.random.RandomState(self.settings.seed)
StartOfStream(seed, current) == RandomStateSeed(seed)

Shapes == {<<3, 3>>, <<4, 4>>, <<3, 4>>, <<4, 3>>, <<2, 3>>}

\* heightmaps handed to apply_erosion: flat, or one cell set apart
ErosionInputs(shape) ==
    {[c \in Cells(shape) |-> 500]}
    \cup {[c \in Cells(shape) |-> IF c = c1 THEN v ELSE 500] :
            <<c1, v>> \in Cells(shape) \X {0, One}}

\* ErosionSettings.min_slope of the tests' fixture
FixtureMinSlope == ValidErosion.min_slope.val

GeneratorInit ==
    /\ g_seed \in {42, 7}
    /\ g_shape \in Shapes
    /\ g_rng = RandomStateSeed(g_seed)
    /\ g_maps = <<>>
    /\ g_input = <<>>
    /\ g_grid = <<>>
    /\ g_height = 0
    /\ g_drops = <<>>
    /\ g_done = 0
    /\ g_pc = "ready"

\* generate_heightmap()
CallGenerateHeightmap ==
    /\ g_pc \in {"ready", "returned", "raised"}
    /\ Len(g_maps) < MaxCalls
    /\ \E start \in {StartOfStream(g_seed, g_rng)} :
          /\ g_maps' = Append(g_maps, [heightmap |-> HeightmapFrom(start, g_shape),
                                       found |-> g_rng])
          /\ g_rng' = RngNext(start)
    /\ UNCHANGED <<g_seed, g_shape, g_input, g_grid, g_height, g_drops, g_done, g_pc>>
    /\ UNCHANGED NotGenerator

\* apply_erosion(heightmap) down to the first droplet of hydraulic_erosion
ApplyErosionBegin ==
    /\ g_pc = "ready"
    /\ \E hm \in ErosionInputs(g_shape) :
          /\ g_input' = hm
          /\ g_grid' = hm
    /\ g_height' = g_shape[2] * One
    /\ g_drops' = <<>>
    /\ g_done' = 0
    /\ g_pc' = "hydraulic"
    /\ UNCHANGED <<g_seed, g_shape, g_rng, g_maps>>
    /\ UNCHANGED NotGenerator

\* the largest r with r * r <= n
Isqrt(n) == CHOOSE r \in 0 .. 3 * One : r * r <= n /\ n < (r + 1) * (r + 1)

\* _calculate_gradient(heightmap, x, y), twice over
Gradient2(hm, shape, x, y) ==
    << SampleHeight(hm, shape, x + One, y) - SampleHeight(hm, shape, x - One, y),
       SampleHeight(hm, shape, x, y + One) - SampleHeight(hm, shape, x, y - One) >>

\* the position after the first step of a droplet: speed starts as zero, so
\* it becomes the negated gradient, scaled to unit length unless it is zero
FirstStep(hm, shape, x, y) ==
    LET g == Gradient2(hm, shape, x, y)
        length == Isqrt(g[1] * g[1] + g[2] * g[2])
    IN  IF g = <<0, 0>> THEN <<x, y>>
        ELSE << x + ((0 - g[1]) * One) \div length, y + ((0 - g[2]) * One) \div length >>

\* one droplet of hydraulic_erosion that ends before anything is eroded or
\* deposited: its cell fails the bounds test, or its moved position does.
\* After the first sample `height` holds an elevation, so with elevations of
\* at most 1 no position satisfies 0 <= y < height - 1.
DropletLeaves ==
    /\ g_pc = "hydraulic"
    /\ g_done < droplets
    /\ LET width == g_shape[1]
           x == RandomTimes(RngNext(g_rng), (width - 1) * One)
           y == RandomTimes(RngSkip(g_rng, 2), g_height - One)
           inside == /\ 0 <= Trunc(x) /\ Trunc(x) < width - 1
                     /\ 0 <= Trunc(y) /\ Trunc(y) * One < g_height - One
           sampled == SampleHeight(g_grid, g_shape, x, y)
           moved == FirstStep(g_grid, g_shape, x, y)
       IN  /\ inside => ~(/\ 0 <= moved[1] /\ moved[1] < (width - 1) * One
                          /\ 0 <= moved[2] /\ moved[2] < sampled - One)
           /\ g_height' = IF inside THEN sampled ELSE g_height
           /\ g_drops' = Append(g_drops, [start |-> <<x, y>>, steps |-> 0,
                                          last |-> IF inside THEN moved ELSE <<x, y>>])
    /\ g_rng' = RngSkip(g_rng, 2)
    /\ g_done' = g_done + 1
    /\ UNCHANGED <<g_seed, g_shape, g_maps, g_input, g_grid, g_pc>>
    /\ UNCHANGED NotGenerator

\* hydraulic_erosion returns and thermal_erosion begins
ThermalErosionBegin ==
    /\ g_pc = "hydraulic"
    /\ g_done = droplets
    /\ g_done' = 0
    /\ g_pc' = "thermal"
    /\ UNCHANGED <<g_seed, g_shape, g_rng, g_maps, g_input, g_grid, g_height, g_drops>>
    /\ UNCHANGED NotGenerator

\* one pass of thermal_erosion
ThermalErosionPass ==
    /\ g_pc = "thermal"
    /\ g_done < iterations
    /\ ~PassRaises(g_shape)
    /\ g_grid' = ErosionPass(g_grid, g_shape, FixtureMinSlope)
    /\ g_done' = g_done + 1
    /\ UNCHANGED <<g_seed, g_shape, g_rng, g_maps, g_input, g_height, g_drops, g_pc>>
    /\ UNCHANGED NotGenerator

\* a pass of thermal_erosion that indexes past the end of an axis
ThermalErosionRaises ==
    /\ g_pc = "thermal"
    /\ g_done < iterations
    /\ PassRaises(g_shape)
    /\ g_pc' = "raised"
    /\ UNCHANGED <<g_seed, g_shape, g_rng, g_maps, g_input, g_grid, g_height, g_drops, g_done>>
    /\ UNCHANGED NotGenerator

\* apply_erosion returns the eroded grid
ApplyErosionReturn ==
    /\ g_pc = "thermal"
    /\ g_done = iterations
    /\ g_pc' = "returned"
    /\ UNCHANGED <<g_seed, g_shape, g_rng, g_maps, g_input, g_grid, g_height, g_drops, g_done>>
    /\ UNCHANGED NotGenerator

GeneratorNext ==
    \/ CallGenerateHeightmap
    \/ ApplyErosionBegin
    \/ DropletLeaves
    \/ ThermalErosionBegin
    \/ ThermalErosionPass
    \/ ThermalErosionRaises
    \/ ApplyErosionReturn

InitGenerator == GeneratorInit /\ BiomeIdle /\ TerrainIdle /\ ClimateIdle /\ PlacerIdle /\ WorldIdle /\ SettingsIdle /\ TemplatesIdle /\ NamesIdle /\ MessagesIdle /\ InputIdle

SpecGenerator == InitGenerator /\ [][GeneratorNext]_vars

\* an interior cell stands above one of its four neighbours by more than
\* min_slope
NonFlat(hm, shape) ==
    \E c \in (1 .. shape[1] - 2) \X (1 .. shape[2] - 2) :
        \E d \in Around(c) : hm[c] - hm[d] > FixtureMinSlope

\* C17: apply_erosion with droplets > 0 on a heightmap with an interior cell
\* above a neighbour by more than min_slope returns a grid that differs from
\* the heightmap in at least one cell
C17_ErosionChangesGrid ==
    (/\ g_pc \in {"returned", "raised"}
     /\ droplets > 0
     /\ NonFlat(g_input, g_shape))
    => (g_pc = "returned" /\ \E c \in Cells(g_shape) : g_grid[c] # g_input[c])

\* C18: generate_heightmap restarts the stream from the seed on every call,
\* so with a fixed seed every call returns the same grid, the one of a fresh
\* stream, however many draws earlier calls and hydraulic_erosion consumed
C18_HeightmapIgnoresConsumedDraws ==
    /\ \A i \in 1 .. Len(g_maps) :
          g_maps[i].heightmap = HeightmapFrom(RandomStateSeed(g_seed), g_shape)
    /\ \A i, j \in 1 .. Len(g_maps) : g_maps[i].heightmap = g_maps[j].heightmap

\* two calls, the later one after hydraulic_erosion drew from the stream the
\* first call left
C18_Witness ==
    /\ Len(g_maps) = 2
    /\ g_pc = "returned"
    /\ g_maps[1].found = RandomStateSeed(g_seed)
    /\ g_maps[2].found = RngSkip(RngNext(RandomStateSeed(g_seed)), 2 * droplets)
    /\ g_maps[2].found # g_maps[1].found

\* range(30): the lifetime of a droplet in steps
MaxLifetime == 30

\* a position inside the grid, by the bounds hydraulic_erosion unpacks
InGrid(pos, shape) ==
    /\ 0 <= pos[1] /\ pos[1] < (shape[1] - 1) * One
    /\ 0 <= pos[2] /\ pos[2] < (shape[2] - 1) * One

\* C21: every droplet starts at a position inside the grid, and a droplet
\* ends before its 30th step only when its position has left the grid; this
\* holds for the first droplet and for every later one
C21_DropletLifecycle ==
    \A i \in 1 .. Len(g_drops) :
        /\ InGrid(g_drops[i].start, g_shape)
        /\ g_drops[i].steps < MaxLifetime => ~InGrid(g_drops[i].last, g_shape)

(***************************************************************************)
(* MessageManager                                                          *)
(*                                                                         *)
(* A text is the sequence of its characters; "\n" is the line break.  An   *)
(* optional argument is <<>> for None and <<v>> for the value v.           *)
(***************************************************************************)
MaxAdds == 4

\* str.split(sep): the pieces between the separators, empty ones included
RECURSIVE SplitOn(_, _)
SplitOn(text, sep) ==
    IF \A i \in 1 .. Len(text) : text[i] # sep THEN <<text>>
    ELSE LET i == CHOOSE k \in 1 .. Len(text) :
                      text[k] = sep /\ \A j \in 1 .. k - 1 : text[j] # sep
         IN  <<SubSeq(text, 1, i - 1)>> \o SplitOn(SubSeq(text, i + 1, Len(text)), sep)

NonEmpty(piece) == piece # <<>>

\* str.split(): the words between runs of blanks
Words(paragraph) == SelectSeq(SplitOn(paragraph, " "), NonEmpty)

\* " ".join(words)
RECURSIVE Join(_)
Join(words) ==
    IF Len(words) = 0 THEN <<>>
    ELSE IF Len(words) = 1 THEN words[1]
    ELSE words[1] \o <<" ">> \o Join(Tail(words))

\* the loop over the words of one paragraph: lines finished so far, the line
\* being filled and its length
RECURSIVE FillLines(_, _, _, _, _)
FillLines(words, width, lines, current_line, current_length) ==
    IF words = <<>>
    THEN IF current_line # <<>> THEN Append(lines, Join(current_line)) ELSE lines
    ELSE LET word == Head(words)
             space_length == IF current_line # <<>> THEN 1 ELSE 0
         IN  IF current_length + Len(word) + space_length <= width
             THEN FillLines(Tail(words), width, lines, Append(current_line, word),
                            current_length + Len(word) + space_length)
             ELSE FillLines(Tail(words), width,
                            IF current_line # <<>>
                            THEN Append(lines, Join(current_line)) ELSE lines,
                            <<word>>, Len(word))

RECURSIVE WrapParagraphs(_, _)
WrapParagraphs(paragraphs, width) ==
    IF paragraphs = <<>> THEN <<>>
    ELSE FillLines(Words(Head(paragraphs)), width, <<>>, <<>>, 0)
         \o WrapParagraphs(Tail(paragraphs), width)

\* _wrap_text(text, width)
WrapText(text, width) ==
    IF text = <<>> THEN << <<>> >>
    ELSE IF Len(text) <= width THEN <<text>>
    ELSE WrapParagraphs(SplitOn(text, "\n"), width)

\* while len(self.messages) > self.max_messages: self.messages.pop(0)
RECURSIVE Trimmed(_, _)
Trimmed(entries, limit) ==
    IF Len(entries) > limit /\ entries # <<>> THEN Trimmed(Tail(entries), limit)
    ELSE entries

\* for line in wrapped_lines: append, then trim
RECURSIVE AppendLines(_, _, _, _)
AppendLines(entries, lines, fg, limit) ==
    IF lines = <<>> THEN entries
    ELSE AppendLines(Trimmed(Append(entries, <<Head(lines), fg>>), limit),
                     Tail(lines), fg, limit)

\* the width add_message wraps to
AvailableWidth(text, width, default) ==
    LET available_width == IF width # <<>> THEN width[1] ELSE default
    IN  IF Len(text) > available_width THEN available_width - 4 ELSE available_width

\* the lines add_message appends for a text
LinesOf(text, width, default) ==
    IF text = <<>> THEN << <<>> >> ELSE WrapText(text, AvailableWidth(text, width, default))

White == <<255, 255, 255>>
Red == <<255, 0, 0>>

\* add_message calls: <<text, fg, width>>
MessageCalls ==
    { << <<>>, White, <<>> >>,
      << <<"a">>, White, <<>> >>,
      << <<"b", " ", "b">>, Red, <<>> >>,
      << <<"a", "a", " ", "b", "b", " ", "c", "c">>, White, <<>> >>,
      << <<"a", "\n", "b", "b", "b", "b", "b", "b">>, White, <<6>> >>,
      << <<" ", " ", " ", " ", " ", " ", " ">>, White, <<>> >> }

\* MessageManager(max_messages, console_width)
MessagesInit ==
    /\ messages = <<>>
    /\ max_messages \in 1 .. 3
    /\ \E given \in {<<>>, <<0>>, <<6>>} :
          console_width = IF given = <<>> \/ given[1] = 0 THEN 25 ELSE given[1]
    /\ appended = <<>>
    /\ adds = 0

\* add_message(text, fg, width)
AddMessage ==
    /\ adds < MaxAdds
    /\ \E call \in MessageCalls :
          LET text == call[1]
              fg == call[2]
              lines == LinesOf(text, call[3], console_width)
          IN  /\ messages' = IF text = <<>>
                             THEN Append(messages, << <<>>, fg >>)
                             ELSE AppendLines(messages, lines, fg, max_messages)
              /\ appended' = appended \o [i \in 1 .. Len(lines) |-> <<lines[i], fg>>]
    /\ adds' = adds + 1
    /\ UNCHANGED <<max_messages, console_width>>
    /\ UNCHANGED NotMessages

MessagesNext == AddMessage

InitMessages == MessagesInit /\ BiomeIdle /\ TerrainIdle /\ ClimateIdle /\ PlacerIdle /\ WorldIdle /\ SettingsIdle /\ TemplatesIdle /\ NamesIdle /\ GeneratorIdle /\ InputIdle

SpecMessages == InitMessages /\ [][MessagesNext]_vars

\* C19: after any sequence of add_message calls len(messages) <= max_messages,
\* and the retained entries are the most recently added lines in insertion
\* order
C19_MessageLimit ==
    /\ Len(messages) <= max_messages
    /\ Len(messages) <= Len(appended)
    /\ messages = SubSeq(appended, Len(appended) - Len(messages) + 1, Len(appended))

(***************************************************************************)
(* InputHandler and GameStateManager                                       *)
(*                                                                         *)
(* The handler is built with the default key bindings, without a message   *)
(* manager and with debug off.  A GameState is the pair of the module      *)
(* whose enum class it belongs to and the member's name: members of two    *)
(* Enum classes are never equal.  A params dict is a function from its     *)
(* keys; True is 1.  An action is <<>> for None, else one record.          *)
(***************************************************************************)
GameStateMembers ==
    {"MAIN_MENU", "GAME_WORLD", "CHARACTER_SCREEN", "INVENTORY", "DIALOGUE", "PAUSED"}

\* GameState of input_handler.py and GameState of game_state_manager.py
HandlerState(member) == [enum |-> "input_handler", member |-> member]
ManagerState(member) == [enum |-> "game_state_manager", member |-> member]

NoParams == [k \in {} |-> 0]
None == <<>>
GameAction(action_type, params) == << [action_type |-> action_type, params |-> params] >>

\* the default bindings among the keys pressed here
DefaultMovementKeys ==
    [key \in {"UP", "l"} |->
        IF key = "UP" THEN [k \in {"dx", "dy"} |-> IF k = "dx" THEN 0 ELSE 0 - 1]
        ELSE [k \in {"dx", "dy"} |-> IF k = "dx" THEN 1 ELSE 0]]
COMMAND_KEYS ==
    [key \in {"i", "c", "ESCAPE"} |->
        IF key = "i" THEN "open_inventory"
        ELSE IF key = "c" THEN "open_character" ELSE "escape"]

\* params["sprint"] = True
WithSprint(params) ==
    [k \in DOMAIN params \cup {"sprint"} |-> IF k = "sprint" THEN 1 ELSE params[k]]

\* action = self.MOVEMENT_KEYS[key]; if shift: action.params["sprint"] = True
\* -- the action is the object stored in the dict
MovementKeysAfter(keys, key, shift) ==
    IF shift THEN [keys EXCEPT ![key] = WithSprint(@)] ELSE keys

\* each handler gives the action it returns and the state it changes to
\* (<<>>: no change_state call)
Outcome(action, change) == [action |-> action, change |-> change]

HandleMainMenu(key) ==
    IF key = "ESCAPE" THEN Outcome(GameAction("quit", NoParams), <<>>)
    ELSE IF key = "RETURN"
    THEN Outcome(GameAction("start_game", NoParams), <<HandlerState("GAME_WORLD")>>)
    ELSE Outcome(None, <<>>)

HandleGameWorld(keys, key, shift, ctrl) ==
    IF key = "ESCAPE"
    THEN Outcome(GameAction("escape", NoParams), <<HandlerState("MAIN_MENU")>>)
    ELSE IF key = "i"
    THEN Outcome(GameAction("open_inventory", NoParams), <<HandlerState("INVENTORY")>>)
    ELSE IF key = "c"
    THEN Outcome(GameAction("open_character", NoParams),
                 <<HandlerState("CHARACTER_SCREEN")>>)
    ELSE IF key \in DOMAIN keys
    THEN Outcome(GameAction("move", MovementKeysAfter(keys, key, shift)[key]), <<>>)
    ELSE IF key \in DOMAIN COMMAND_KEYS
    THEN Outcome(GameAction(COMMAND_KEYS[key], NoParams), <<>>)
    ELSE IF ctrl /\ key = "s" THEN Outcome(GameAction("save_game", NoParams), <<>>)
    ELSE IF ctrl /\ key = "l" THEN Outcome(GameAction("load_game", NoParams), <<>>)
    ELSE Outcome(None, <<>>)

HandleInventory(key) ==
    IF key \in {"ESCAPE", "i"}
    THEN Outcome(GameAction("close_inventory", NoParams), <<HandlerState("GAME_WORLD")>>)
    ELSE Outcome(None, <<>>)

HandleCharacterScreen(key) ==
    IF key \in {"ESCAPE", "c"}
    THEN Outcome(GameAction("close_character", NoParams), <<HandlerState("GAME_WORLD")>>)
    ELSE Outcome(None, <<>>)

HandleDialogue(key) ==
    IF key = "ESCAPE" THEN Outcome(GameAction("end_dialogue", NoParams), <<>>)
    ELSE IF key = "RETURN" THEN Outcome(GameAction("advance_dialogue", NoParams), <<>>)
    ELSE Outcome(None, <<>>)

HandlePaused(key) ==
    IF key \in {"ESCAPE", "p"} THEN Outcome(GameAction("unpause", NoParams), <<>>)
    ELSE Outcome(None, <<>>)

\* the handler of a member
Handle(member, keys, key, shift, ctrl) ==
    CASE member = "MAIN_MENU" -> HandleMainMenu(key)
      [] member = "GAME_WORLD" -> HandleGameWorld(keys, key, shift, ctrl)
      [] member = "INVENTORY" -> HandleInventory(key)
      [] member = "CHARACTER_SCREEN" -> HandleCharacterScreen(key)
      [] member = "DIALOGUE" -> HandleDialogue(key)
      [] member = "PAUSED" -> HandlePaused(key)

\* self.state_manager.get_current_state() == GameState.<member>, GameState
\* being the enum of input_handler.py
StateIs(state, member) == state = HandlerState(member)

\* the if/elif chain of ev_keydown
Dispatch(state, keys, key, shift, ctrl) ==
    IF \E member \in GameStateMembers : StateIs(state, member)
    THEN Handle(CHOOSE member \in GameStateMembers : StateIs(state, member),
                keys, key, shift, ctrl)
    ELSE Outcome(None, <<>>)

\* key-down events: <<sym, shift held, ctrl held>>
KeyDowns ==
    ({"ESCAPE", "RETURN", "i", "UP", "l"} \X BOOLEAN \X {FALSE})
    \cup {<<"s", FALSE, TRUE>>}

\* GameStateManager() and InputHandler(context, state_manager)
InputInit ==
    /\ current_state = ManagerState("MAIN_MENU")
    /\ pressed_keys = {}
    /\ MOVEMENT_KEYS = DefaultMovementKeys
    /\ returned = <<>>

\* ev_keydown(event)
EvKeydown ==
    /\ \E event \in KeyDowns :
          \E outcome \in {Dispatch(current_state, MOVEMENT_KEYS,
                                   event[1], event[2], event[3])} :
              /\ pressed_keys' = pressed_keys \cup {event[1]}
              /\ MOVEMENT_KEYS' =
                    IF StateIs(current_state, "GAME_WORLD")
                       /\ event[1] \in DOMAIN MOVEMENT_KEYS
                    THEN MovementKeysAfter(MOVEMENT_KEYS, event[1], event[2])
                    ELSE MOVEMENT_KEYS
              /\ current_state' =
                    IF outcome.change = <<>> THEN current_state ELSE outcome.change[1]
              /\ returned' = << [sym |-> event[1], shift |-> event[2], ctrl |-> event[3],
                                 found |-> current_state, action |-> outcome.action,
                                 left |-> current_state'] >>
    /\ UNCHANGED NotInput

\* ev_keyup(event)
EvKeyup ==
    /\ \E sym \in pressed_keys : pressed_keys' = pressed_keys \ {sym}
    /\ UNCHANGED <<current_state, MOVEMENT_KEYS, returned>>
    /\ UNCHANGED NotInput

\* state_manager.change_state(new_state) called by the game, with a member
\* of the enum the game imports from input_handler
ChangeState ==
    /\ \E member \in GameStateMembers :
          /\ current_state # HandlerState(member)
          /\ current_state' = HandlerState(member)
    /\ UNCHANGED <<pressed_keys, MOVEMENT_KEYS, returned>>
    /\ UNCHANGED NotInput

InputNext ==
    \/ EvKeydown
    \/ EvKeyup
    \/ ChangeState

InitInput == InputInit /\ BiomeIdle /\ TerrainIdle /\ ClimateIdle /\ PlacerIdle /\ WorldIdle /\ SettingsIdle /\ TemplatesIdle /\ NamesIdle /\ GeneratorIdle /\ MessagesIdle

SpecInput == InitInput /\ [][InputNext]_vars

ActionType(action) == IF action = None THEN "None" ELSE action[1].action_type

\* C26: in GAME_WORLD the action returned for a movement key carries the
\* sprint flag exactly when Shift was held during that press; after any
\* earlier presses an unshifted press returns params of exactly dx and dy
C26_SprintIffShift ==
    (/\ returned # <<>>
     /\ returned[1].found = HandlerState("GAME_WORLD")
     /\ returned[1].sym \in DOMAIN DefaultMovementKeys)
    => /\ returned[1].action # None
       /\ returned[1].action[1].action_type = "move"
       /\ ("sprint" \in DOMAIN returned[1].action[1].params) <=> returned[1].shift
       /\ ~returned[1].shift =>
             returned[1].action[1].params = DefaultMovementKeys[returned[1].sym]

\* C30: ev_keydown applies the handler of the state the state manager
\* reports, from the first event on: with a fresh GameStateManager RETURN
\* returns start_game and moves the state to GAME_WORLD and ESCAPE returns
\* quit, and in every state S the action returned is the one the handler
\* for S gives, never None for every key
C30_HandlerFollowsState ==
    returned # <<>> =>
        /\ ActionType(returned[1].action) =
              ActionType(Handle(returned[1].found.member, MOVEMENT_KEYS,
                                returned[1].sym, returned[1].shift,
                                returned[1].ctrl).action)
        /\ (returned[1].found.member = "MAIN_MENU" /\ returned[1].sym = "RETURN")
              => /\ returned[1].action = GameAction("start_game", NoParams)
                 /\ returned[1].left.member = "GAME_WORLD"
        /\ (returned[1].found.member = "MAIN_MENU" /\ returned[1].sym = "ESCAPE")
              => returned[1].action = GameAction("quit", NoParams)

====
